---- MODULE Spec2Model ----
(***************************************************************************)
(* Click / traverse state machine of the crawler.                          *)
(*                                                                         *)
(*   collect_coordinates_node  -> click_coordinate_node (once per          *)
(*   candidate, with _browse_images_with_arrow_keys inside it when the     *)
(*   click entered a detail view) -> scroll_and_wait_node -> collect ...   *)
(*                                                                         *)
(* The nodes are translated from src/agent/click_nodes.py.  The driver     *)
(* that wires them together (run_click_graph, imported by src/main.py      *)
(* from agent.graph) is not part of the sources; its routing and its       *)
(* initial state follow section 4.1 of the specification.                  *)
(*                                                                         *)
(* A node with several awaits is cut at the awaits the properties look     *)
(* at: pc names the position of the mission's single task.                 *)
(***************************************************************************)
EXTENDS Integers, Sequences, FiniteSets, TLC

\* ------------------------------------------------------------------------
\* Bounds of the model
\* ------------------------------------------------------------------------
MaxNotes == 2        \* largest max_notes (candidates per locate cycle)
MaxRounds == 2       \* largest total_rounds
MaxArrow == 5        \* largest browse_images_arrow_count of a mission
MaxCap == 10         \* largest max_images
MissionFrames == 2   \* distinct screenshots a mission's pages can show
VisitArrow == 3      \* largest browse_images_arrow_count of a single visit
VisitFrames == 8     \* distinct screenshots a single visit's page can show
FeedNotes == 5       \* max_notes of a one-round mission over a long feed
FeedArrow == 1       \* largest browse_images_arrow_count of that mission
MaxCards == 2        \* most note cards on a page handed to the verifier
MaxProcess == 2      \* largest max_notes_to_process
HashBits == 4        \* width of the hashes handed to _hamming_distance
MaxAnswer == 2       \* longest answer of the vision model that names an id again
MaxSelectors == 2    \* most selectors in note_detail_selectors
MaxMissions == 3     \* most entries of MISSIONS
MaxConcurrent == 2   \* largest max_concurrent
HashSize == 2        \* largest hash_size handed to _compute_image_hash
MaxGray == 2         \* brightest value of a grayscale pixel

\* ------------------------------------------------------------------------
\* Program constants
\* ------------------------------------------------------------------------
None == -1           \* Optional[int] max_images: None = no limit
DupThreshold == 4    \* "if distance <= 4"

VARIABLES
    \* configuration handed to the click graph
    max_notes, total_rounds, arrow_count, max_images, palette,
    \* ClickGraphState
    coordinates, current_index, current_round, clicked, failures, step,
    total_images, last_click_entered,
    \* position of the mission's task
    pc,
    \* locals of _browse_images_with_arrow_keys
    saved_count, i, prev_screenshot, current_screenshot, files,
    \* history (not read by the program)
    presses, visit_presses, clicks, cap_hit, cap_stopped, visit_total0, stop,
    order, cycle, raised, entries,
    \* ClickVerifier.validate: its arguments, its result, its position
    v_page, v_x, v_y, v_bbox, verification, vpc,
    \* AgentState; last_click_entered_detail is "True", "False" or "None"
    max_notes_to_process, note_links, current_note_index, processed_notes,
    failed_notes, agent_step, last_click_entered_detail,
    \* position of the workflow (the node to run next)
    apc,
    \* history of the workflow (not read by the program); entered_view:
    \* the click of the last process_note_detail step opened a detail view
    detected, mouse_clicks, scrolls, entered_view,
    \* two calls of _hamming_distance: the arguments, the results of
    \* (hash_a, hash_b) and of (hash_b, hash_a), the position
    hash_a, hash_b, distance, distance_swapped, hpc,
    \* the polling loops: the position, the loop clock (ms), the locals of
    \* _verify_detail_page_entry and its result, the locals of
    \* manual_login_and_save_cookies_node and its result
    ppc, now, deadline, selectors, detail_entered, via,
    checks, is_logged_in, login_step, cookies_saved,
    \* history of the polling loops (not read by the program): the polls
    \* begun, the last value of page.url a poll has read
    iterations, seen_url,
    \* main: the missions, max_concurrent, the semaphore (its value, its
    \* waiters, the release protocol of the interpreter), the event loop's
    \* ready queue, and per mission the position of run_single_mission, its
    \* site and its result
    mission_count, max_concurrent, handoff, sem_value, sem_waiters, ready,
    rpos, rsite, result,
    \* history of the missions (not read by the program): calls of
    \* browser_manager.close(), use of the auth file by a running mission,
    \* order of the calls of acquire and of their returns
    closes, auth, arrivals, admissions,
    \* one call of _compute_image_hash: the grayscale grid the image decodes
    \* to (row-major, empty when it does not decode), hash_size, the result,
    \* the position
    pixels, hash_size, hash_int, dpc,
    \* steps 1.5 to 2 of process_note_detail_node for one candidate: the
    \* first 50 characters of each card's innerText (as words, in the order
    \* of the rectangles of v_page), the result of
    \* _calibrate_click_with_dom, the point handed to _human_like_click,
    \* the calls of _calibrate_click_with_dom (history), the position
    card_texts, calibrated, click_point, calibrations, cpc

config == <<max_notes, total_rounds, arrow_count, max_images, palette>>
graph == <<coordinates, current_index, current_round, clicked, failures,
           step, last_click_entered>>
browse == <<saved_count, i, prev_screenshot, current_screenshot, files>>
history == <<presses, visit_presses, clicks, cap_hit, cap_stopped,
             visit_total0, stop, order, cycle, raised, entries>>
verifier == <<v_page, v_x, v_y, v_bbox, verification, vpc>>
agent == <<max_notes_to_process, note_links, current_note_index,
           processed_notes, failed_notes, agent_step,
           last_click_entered_detail, apc, detected, mouse_clicks, scrolls,
           entered_view>>
hashing == <<hash_a, hash_b, distance, distance_swapped, hpc>>
polling == <<ppc, now, deadline, selectors, detail_entered, via, checks,
             is_logged_in, login_step, cookies_saved, iterations, seen_url>>
runner == <<mission_count, max_concurrent, handoff, sem_value, sem_waiters,
            ready, rpos, rsite, result, closes, auth, arrivals, admissions>>
dhash == <<pixels, hash_size, hash_int, dpc>>
calib == <<card_texts, calibrated, click_point, calibrations, cpc>>
units == <<dhash, calib>>
rest == <<hashing, polling, runner, units>>
other == <<verifier, agent, rest>>
vars == <<config, graph, total_images, pc, browse, history, other>>

\* ------------------------------------------------------------------------
\* Screenshots and their perceptual hashes
\* ------------------------------------------------------------------------
\* A screenshot is identified by its bytes (a number); NoShot is "no
\* screenshot taken yet".  The 64-bit dhash of a screenshot is the set of
\* its 1-bits; ok = FALSE is the None that _compute_image_hash returns when
\* the bytes cannot be decoded.
NoShot == 0

Hash(bits) == [ok |-> TRUE, bits |-> bits]
NoHash == [ok |-> FALSE, bits |-> {}]

\* prev_hash / current_hash: the hash _compute_image_hash returns for each
\* screenshot the page can show.  Consecutive entries give
\* the Hamming distances 9, 3 (1..12, 1..21, 1..24), 12 against the all-zero
\* hash, 4 and 5 (1..16 against 1..12 and 1..21), equal hashes of different
\* bytes (3 and 8) and an undecodable capture (6).
ShotHash(image_bytes) ==
    CASE image_bytes = 1 -> Hash(1..12)
      [] image_bytes = 2 -> Hash(1..21)
      [] image_bytes = 3 -> Hash(1..24)
      [] image_bytes = 4 -> Hash({})
      [] image_bytes = 5 -> Hash(1..3)
      [] image_bytes = 6 -> NoHash
      [] image_bytes = 7 -> Hash(1..16)
      [] image_bytes = 8 -> Hash(1..12)
      [] OTHER -> Hash(30..(30 + image_bytes))

\* bin(hash1 ^ hash2).count("1")
_hamming_distance(hash1, hash2) ==
    Cardinality((hash1.bits \ hash2.bits) \cup (hash2.bits \ hash1.bits))

\* The same function on the integers themselves.  a ^ b, bit by bit:
\* an "or" in the place of the "exclusive or"
xor_as_or(a, b) ==
    LET RECURSIVE f(_, _)
        f(p, q) == IF p = 0 /\ q = 0 THEN 0
                   ELSE (IF p % 2 = 1 \/ q % 2 = 1 THEN 1 ELSE 0)
                          + 2 * f(p \div 2, q \div 2)
    IN  f(a, b)

\* hash1 ^ hash2 on non-negative integers
xor(a, b) ==
    LET RECURSIVE f(_, _)
        f(p, q) == IF p = 0 /\ q = 0 THEN 0
                   ELSE (((p % 2) + (q % 2)) % 2) + 2 * f(p \div 2, q \div 2)
    IN  f(a, b)

\* bin(n).count("1")
count_ones(n) ==
    LET RECURSIVE f(_)
        f(p) == IF p = 0 THEN 0 ELSE (p % 2) + f(p \div 2)
    IN  f(n)

\* return bin(hash1 ^ hash2).count("1")
hamming_distance_int(a, b) == count_ones(xor(a, b))

HashingIdle ==
    /\ hash_a = 0
    /\ hash_b = 0
    /\ distance = 0
    /\ distance_swapped = 0
    /\ hpc = "idle"

PollingIdle ==
    /\ ppc = "idle"
    /\ now = 0
    /\ deadline = 0
    /\ selectors = 0
    /\ detail_entered = "None"
    /\ via = "None"
    /\ checks = 0
    /\ is_logged_in = FALSE
    /\ login_step = "None"
    /\ cookies_saved = FALSE
    /\ iterations = 0
    /\ seen_url = "None"

RunnerIdle ==
    /\ mission_count = 0
    /\ max_concurrent = 1
    /\ handoff = TRUE
    /\ sem_value = 1
    /\ sem_waiters = <<>>
    /\ ready = <<>>
    /\ rpos = <<>>
    /\ rsite = <<>>
    /\ result = <<>>
    /\ closes = <<>>
    /\ auth = <<>>
    /\ arrivals = <<>>
    /\ admissions = <<>>

DhashIdle ==
    /\ pixels = <<>>
    /\ hash_size = 1
    /\ hash_int = 0
    /\ dpc = "idle"

\* "return None" / "if (!best) return null"
NoResult == [present |-> FALSE, x2 |-> 0, y2 |-> 0]

\* no click yet
NoPoint == [x2 |-> None, y2 |-> None]

CalibIdle ==
    /\ card_texts = <<>>
    /\ calibrated = NoResult
    /\ click_point = NoPoint
    /\ calibrations = 0
    /\ cpc = "idle"

UnitsIdle == DhashIdle /\ CalibIdle

RestIdle == HashingIdle /\ PollingIdle /\ RunnerIdle /\ UnitsIdle

\* Python truth value of an Optional[int] hash: None and 0 are false.
HashTruthy(h) == h.ok /\ h.bits # {}

\* Python truth value of max_images: None and 0 are false.
CapSet == max_images # None /\ max_images # 0

\* the duplicate check without the comparison of the raw bytes
IsDuplicateHashOnly(prev, cur) ==
    /\ HashTruthy(ShotHash(prev))
    /\ HashTruthy(ShotHash(cur))
    /\ _hamming_distance(ShotHash(prev), ShotHash(cur)) <= DupThreshold

\* is_duplicate of one loop iteration
IsDuplicate(prev, cur) ==
    \/ cur = prev
    \/ /\ HashTruthy(ShotHash(prev))
       /\ HashTruthy(ShotHash(cur))
       /\ _hamming_distance(ShotHash(prev),
                            ShotHash(cur)) <= DupThreshold

\* ------------------------------------------------------------------------
\* Files of the visit's note directory
\* ------------------------------------------------------------------------
\* Every visit has a directory of its own (output_dir / note_id, with the
\* round, the index and the marker in note_id), so files starts empty.  The
\* file operations themselves (mkdir, write_bytes, unlink) do not fail here;
\* the calls on the page (click, keyboard.press, screenshot) may raise.
WriteFile(fs, n, shot) ==
    [k \in (DOMAIN fs) \cup {n} |-> IF k = n THEN shot ELSE fs[k]]

\* an unlink that leaves the file in place
UnlinkKept(fs, n) == fs

Unlink(fs, n) == [k \in (DOMAIN fs) \ {n} |-> fs[k]]

NoFiles == [k \in {} |-> NoShot]

\* ------------------------------------------------------------------------
\* Routing (section 4.1 of the specification)
\* ------------------------------------------------------------------------
RouteAfterCollect(coords) ==
    IF Len(coords) = 0 THEN "done" ELSE "click"

RouteAfterClick(idx, coords, round, rounds) ==
    IF idx < Len(coords) THEN "click"
    ELSE IF round < rounds THEN "scroll" ELSE "done"

\* ------------------------------------------------------------------------
\* ClickVerifier (src/core/click_verifier.py)
\* ------------------------------------------------------------------------
\* A page, as validate sees it: the viewport, the verdict of
\* _element_from_point at the point, and the rectangles of
\* _collect_note_rects in document order. Coordinates are CSS pixels.
\* A centre rect.x + rect.width / 2 may be a half: it is kept doubled.
Rect(x, y, w, h) == [x |-> x, y |-> y, width |-> w, height |-> h]

center_x2(rect) == 2 * rect.x + rect.width
center_y2(rect) == 2 * rect.y + rect.height

\* int() that rounds a half away from zero
int_up(d2) == IF d2 >= 0 THEN (d2 + 1) \div 2 ELSE -((1 - d2) \div 2)

\* Python's int() of the float d2 / 2: truncation towards zero
int(d2) == IF d2 >= 0 THEN d2 \div 2 ELSE -((-d2) \div 2)

\* a viewport test that lets every point through
_is_in_viewport_any(x, y, viewport) == TRUE

_is_in_viewport(x, y, viewport) ==
    0 <= x /\ x <= viewport.width /\ 0 <= y /\ y <= viewport.height

\* "if bounding_box": None and {} are falsy
NoBox == [present |-> FALSE, x |-> 0, y |-> 0, width |-> 0, height |-> 0]

Box(x, y, w, h) ==
    [present |-> TRUE, x |-> x, y |-> y, width |-> w, height |-> h]

_point_in_bbox(x, y, bbox) ==
    /\ x >= bbox.x
    /\ y >= bbox.y
    /\ x <= bbox.x + bbox.width
    /\ y <= bbox.y + bbox.height

\* the "contains" field computed in the page
contains(rect, clickX, clickY) ==
    /\ rect.x <= clickX /\ clickX <= rect.x + rect.width
    /\ rect.y <= clickY /\ clickY <= rect.y + rect.height

\* a search that keeps the last rectangle containing the point
inside_rect_last(note_rects, x, y) ==
    LET hits == {k \in 1..Len(note_rects) : contains(note_rects[k], x, y)}
    IN  IF hits = {} THEN 0 ELSE CHOOSE k \in hits : \A j \in hits : j <= k

\* next((r for r in note_rects if r.get("contains")), None): the index of
\* the first rectangle containing the point, 0 for None
inside_rect(note_rects, x, y) ==
    LET hits == {k \in 1..Len(note_rects) : contains(note_rects[k], x, y)}
    IN  IF hits = {} THEN 0 ELSE CHOOSE k \in hits : \A j \in hits : k <= j

\* math.hypot(cx - x, cy - y), squared and multiplied by four
dist2(rect, x, y) ==
    (center_x2(rect) - 2 * x) * (center_x2(rect) - 2 * x)
      + (center_y2(rect) - 2 * y) * (center_y2(rect) - 2 * y)

\* a loop that replaces the candidate on "dist <= min_dist"
_find_nearest_last(note_rects, x, y) ==
    IF Len(note_rects) = 0 THEN 0
    ELSE CHOOSE k \in 1..Len(note_rects) :
            /\ \A j \in 1..(k - 1) :
                  dist2(note_rects[k], x, y) <= dist2(note_rects[j], x, y)
            /\ \A j \in (k + 1)..Len(note_rects) :
                  dist2(note_rects[k], x, y) < dist2(note_rects[j], x, y)

\* the loop replaces the candidate only on "dist < min_dist": the index of
\* the first rectangle of minimal distance, 0 for None
_find_nearest(note_rects, x, y) ==
    IF Len(note_rects) = 0 THEN 0
    ELSE CHOOSE k \in 1..Len(note_rects) :
            /\ \A j \in 1..(k - 1) :
                  dist2(note_rects[k], x, y) < dist2(note_rects[j], x, y)
            /\ \A j \in (k + 1)..Len(note_rects) :
                  dist2(note_rects[k], x, y) <= dist2(note_rects[j], x, y)

Verdict(valid, x, y, reason) ==
    [is_valid |-> valid, click_x |-> x, click_y |-> y, reason |-> reason]

validate(page, x, y, bounding_box) ==
    LET note_rects == page.note_rects
        inside == inside_rect(note_rects, x, y)
        nearest == _find_nearest(note_rects, x, y)
    IN  IF ~_is_in_viewport(x, y, page.viewport_size)
        THEN Verdict(FALSE, x, y, "coordinate outside viewport")
        ELSE IF page.is_note
        THEN Verdict(TRUE, x, y, "elementFromPoint matches note selector")
        ELSE IF inside # 0
        THEN Verdict(TRUE, int(center_x2(note_rects[inside])),
                     int(center_y2(note_rects[inside])),
                     "within note card bounding box")
        ELSE IF bounding_box.present /\ _point_in_bbox(x, y, bounding_box)
        THEN Verdict(TRUE, x, y, "within vision bounding box")
        ELSE IF nearest # 0
        THEN Verdict(FALSE, int(center_x2(note_rects[nearest])),
                     int(center_y2(note_rects[nearest])),
                     "no direct hit; suggesting nearest note card center")
        ELSE Verdict(FALSE, x, y, "no note card found near coordinate")

\* the verifier before any call
NoVerdict == Verdict(FALSE, 0, 0, "none")

NoPage == [viewport_size |-> [width |-> 0, height |-> 0],
           is_note |-> FALSE, note_rects |-> <<>>]

VerifierIdle ==
    /\ v_page = NoPage
    /\ v_x = 0
    /\ v_y = 0
    /\ v_bbox = NoBox
    /\ verification = NoVerdict
    /\ vpc = "idle"

\* ------------------------------------------------------------------------
\* The AgentState workflow (src/agent/graph.py, src/agent/nodes.py)
\* ------------------------------------------------------------------------
\* a route that sends an empty collection to the processing node
route_after_collection_any(links) == "process_note_detail"

\* route_after_collection, with the node each answer is mapped to
route_after_collection(links) ==
    IF Len(links) > 0 THEN "process_note_detail" ELSE "END"

\* a route that asks for more notes while candidates of the batch remain
route_after_back_early(idx, links, processed, failed, max) ==
    IF Len(processed) + Len(failed) < max
    THEN "scroll_for_more_notes"
    ELSE "END"

\* a test that still passes when the maximum is reached
under_max_inclusive(processed_total, max) == processed_total <= max

\* "processed_total < max_notes"
under_max(processed_total, max) == processed_total < max

\* route_after_back, with the node each answer is mapped to
route_after_back(idx, links, processed, failed, max) ==
    LET processed_total == Len(processed) + Len(failed)
    IN  IF idx < Len(links) /\ under_max(processed_total, max)
        THEN "process_note_detail"
        ELSE IF under_max(processed_total, max)
        THEN "scroll_for_more_notes"
        ELSE "END"

\* a click position; the coordinates are doubled, as the centre that
\* _calibrate_click_with_dom returns may be a half pixel
Position(x2, y2) == [x2 |-> x2, y2 |-> y2]

\* what the locator detects: the card of its docstring, a card below the
\* viewport, and a point in the gap between two cards
Note(x, y, bbox) == [click_x |-> x, click_y |-> y, bounding_box |-> bbox]

Detected == {Note(300, 450, Box(200, 350, 200, 250)),
             Note(300, 900, NoBox),
             Note(450, 475, NoBox)}

\* note_links[:max_notes]
Truncate(links, max) == [k \in 1..(IF Len(links) < max THEN Len(links) ELSE max) |-> links[k]]

\* a comparison that takes every verdict as a usable suggestion
SuggestionDiffersAlways(v, click_x, click_y) == TRUE

\* suggestion != (click_x, click_y)
SuggestionDiffers(v, click_x, click_y) ==
    <<v.click_x, v.click_y>> # <<click_x, click_y>>

\* _calibrate_click_with_dom: None, or the centre of the nearest card whose
\* text is not on its block list (any card of the page can be that one)
Calibrated(page, x, y) ==
    {Position(2 * x, 2 * y)} \cup
    {Position(center_x2(page.note_rects[k]), center_y2(page.note_rects[k])) :
        k \in 1..Len(page.note_rects)}

AgentIdle ==
    /\ max_notes_to_process = 1
    /\ note_links = <<>>
    /\ current_note_index = 0
    /\ processed_notes = <<>>
    /\ failed_notes = <<>>
    /\ agent_step = "not_started"
    /\ last_click_entered_detail = "True"
    /\ apc = "idle"
    /\ detected = 0
    /\ mouse_clicks = 0
    /\ scrolls = 0
    /\ entered_view = FALSE

\* ------------------------------------------------------------------------
\* Initial states
\* ------------------------------------------------------------------------
InitState ==
    /\ coordinates = <<>>
    /\ current_index = 0
    /\ current_round = 1
    /\ clicked = <<>>
    /\ failures = <<>>
    /\ step = "init"
    /\ total_images = 0
    /\ last_click_entered = FALSE
    /\ pc = "collect"
    /\ saved_count = 0
    /\ i = 0
    /\ prev_screenshot = NoShot
    /\ current_screenshot = NoShot
    /\ files = NoFiles
    /\ presses = 0
    /\ visit_presses = 0
    /\ clicks = 0
    /\ cap_hit = FALSE
    /\ cap_stopped = FALSE
    /\ visit_total0 = 0
    /\ stop = "none"
    /\ order = <<>>
    /\ cycle = 0
    /\ raised = 0
    /\ entries = 0

Init ==
    /\ max_notes \in 1..MaxNotes
    /\ total_rounds \in 1..MaxRounds
    /\ arrow_count \in 0..MaxArrow
    /\ max_images \in {None} \cup (0..MaxCap)
    /\ palette = 1..MissionFrames
    /\ InitState
    /\ VerifierIdle
    /\ AgentIdle
    /\ RestIdle

InitVisit ==
    /\ max_notes = 1
    /\ total_rounds = 1
    /\ arrow_count \in 0..VisitArrow
    /\ max_images \in {None} \cup (0..MaxCap)
    /\ palette = 1..VisitFrames
    /\ InitState
    /\ VerifierIdle
    /\ AgentIdle
    /\ RestIdle

InitFeed ==
    /\ max_notes = FeedNotes
    /\ total_rounds = 1
    /\ arrow_count \in 0..FeedArrow
    /\ max_images = None
    /\ palette = 1..MissionFrames
    /\ InitState
    /\ VerifierIdle
    /\ AgentIdle
    /\ RestIdle

\* ------------------------------------------------------------------------
\* collect_coordinates_node
\* ------------------------------------------------------------------------
\* SoMMarker.inject_markers keeps the first max_marks visible elements and
\* numbers them 1..k.
inject_markers(visible, max_marks) ==
    1..(IF visible < max_marks THEN visible ELSE max_marks)

\* The marker ids parsed from the answer of the vision model: an ascending
\* prefix of the marks, all max_marks marks followed by the first id once
\* again (answers of this kind up to length MaxAnswer), or one id that carries
\* no mark.  _parse_marker_ids keeps every positive integer.
MarkerAnswers(element_map, max_marks) ==
    LET k == Cardinality(element_map)
    IN  {[j \in 1..n |-> j] : n \in 0..k}
        \cup {[j \in 1..(n + 1) |-> IF j <= n THEN j ELSE 1] :
                 n \in {q \in 1..k : q = max_marks /\ q + 1 <= MaxAnswer}}
        \cup {<<k + 1>>}

\* SoMVisionLocator.locate_note_cards: one result per marker id of the answer
\* that has an element, in the order of the answer.
locate_note_cards(element_map, marker_ids) ==
    SelectSeq(marker_ids, LAMBDA id : id \in element_map)

\* a collect that keeps the candidates it finds in the state
CollectedAppended(old, elements) == old \o elements

\* "coordinates": elements, which replaces the list of the state
Collected(old, elements) == elements

\* The node stores the locator's list as it is; every element carries the
\* handle of this locate cycle.
collect_coordinates_node ==
    /\ pc = "collect"
    /\ UNCHANGED other
    /\ \E visible \in 0..(max_notes + 1) :
       \E marker_ids \in MarkerAnswers(inject_markers(visible, max_notes),
                                     max_notes) :
          LET located == locate_note_cards(
                             inject_markers(visible, max_notes), marker_ids)
              elements == [k \in 1..Len(located) |->
                              [marker_id |-> located[k], cycle |-> cycle + 1]]
          IN  /\ coordinates' = Collected(coordinates, elements)
              /\ current_index' = 0
              /\ step' = IF elements = <<>> THEN "no_elements_found"
                                           ELSE "elements_collected"
              /\ pc' = RouteAfterCollect(elements)
    /\ cycle' = cycle + 1
    /\ order' = <<>>
    /\ UNCHANGED <<config, current_round, clicked, failures,
                   last_click_entered, total_images, browse, presses,
                   visit_presses, clicks, cap_hit, cap_stopped, visit_total0,
                   stop, raised, entries>>

\* ------------------------------------------------------------------------
\* click_coordinate_node
\* ------------------------------------------------------------------------
ClickedEntry(idx, entered) ==
    [index |-> idx, marker_id |-> coordinates[idx + 1].marker_id,
     entered_detail |-> entered]

FailureEntry(idx) ==
    [index |-> idx, marker_id |-> coordinates[idx + 1].marker_id]

\* an index that moves by two
NextIndexSkip(idx) == idx + 2

\* "current_index": idx + 1
NextIndex(idx) == idx + 1

\* a success path that reports every click as having entered a detail view
ClickDoneEntered(entered) ==
    /\ clicked' = Append(clicked, ClickedEntry(current_index, TRUE))
    /\ failures' = failures
    /\ current_index' = NextIndex(current_index)
    /\ step' = "clicked"
    /\ last_click_entered' = TRUE
    /\ order' = Append(order, current_index)
    /\ pc' = RouteAfterClick(NextIndex(current_index), coordinates,
                             current_round, total_rounds)

\* a log that keeps only its newest entry
RecordedAlone(log, entry) == <<entry>>

\* "clicked.append({...})"
Recorded(log, entry) == Append(log, entry)

\* the node's return on its success path
ClickDone(entered) ==
    /\ clicked' = Recorded(clicked, ClickedEntry(current_index, entered))
    /\ failures' = failures
    /\ current_index' = NextIndex(current_index)
    /\ step' = "clicked"
    /\ last_click_entered' = entered
    /\ order' = Append(order, current_index)
    /\ pc' = RouteAfterClick(NextIndex(current_index), coordinates,
                             current_round, total_rounds)

\* an except branch that swallows the exception without recording it
ClickFailedSilent ==
    /\ failures' = failures
    /\ clicked' = clicked
    /\ current_index' = NextIndex(current_index)
    /\ step' = "click_failed"
    /\ last_click_entered' = FALSE
    /\ order' = Append(order, current_index)
    /\ pc' = RouteAfterClick(NextIndex(current_index), coordinates,
                             current_round, total_rounds)

\* an except branch that leaves the index where it is
ClickFailedRetry ==
    /\ failures' = Append(failures, FailureEntry(current_index))
    /\ clicked' = clicked
    /\ current_index' = current_index
    /\ step' = "click_failed"
    /\ last_click_entered' = FALSE
    /\ order' = Append(order, current_index)
    /\ pc' = RouteAfterClick(current_index, coordinates,
                             current_round, total_rounds)

\* the node's return from its except branch
ClickFailed ==
    /\ failures' = Append(failures, FailureEntry(current_index))
    /\ clicked' = clicked
    /\ current_index' = NextIndex(current_index)
    /\ step' = "click_failed"
    /\ last_click_entered' = FALSE
    /\ order' = Append(order, current_index)
    /\ pc' = RouteAfterClick(NextIndex(current_index), coordinates,
                             current_round, total_rounds)

\* _press_escape (press_escape_after_click) swallows its own exceptions and
\* touches nothing of the state, so it has no step of its own.
\* From the entry of the node to the verdict of _verify_detail_entry: the
\* click is issued and either raises, or leaves the page on the feed, or
\* opens a detail view (the node then goes on in BrowseStart).
ClickStart ==
    /\ pc = "click"
    /\ UNCHANGED other
    /\ IF current_index >= Len(coordinates)
       THEN /\ step' = "all_clicked"
            /\ pc' = RouteAfterClick(current_index, coordinates,
                                     current_round, total_rounds)
            /\ UNCHANGED <<coordinates, current_index, current_round,
                           clicked, failures, last_click_entered, clicks,
                           order, stop, raised, entries>>
       ELSE /\ clicks' = clicks + 1
            /\ stop' = "none"
            /\ UNCHANGED <<coordinates, current_round>>
            /\ \E outcome \in {"raised", "not_entered", "entered"} :
                  CASE outcome = "raised" ->
                          /\ ClickFailed
                          /\ raised' = raised + 1
                          /\ entries' = entries
                    [] outcome = "not_entered" ->
                          /\ ClickDone(FALSE)
                          /\ UNCHANGED <<raised, entries>>
                    [] outcome = "entered" ->
                          /\ pc' = "browse_start"
                          /\ raised' = raised
                          /\ entries' = entries + 1
                          /\ UNCHANGED <<current_index, clicked, failures,
                                         step, last_click_entered, order>>
    /\ UNCHANGED <<config, total_images, browse, presses, visit_presses,
                   cap_hit, cap_stopped, visit_total0, cycle>>

\* a node in which an exception of the traversal reaches the except branch
ClickReturnPropagating ==
    /\ pc = "click_return"
    /\ UNCHANGED other
    /\ IF stop = "error" THEN ClickFailed ELSE ClickDone(TRUE)
    /\ UNCHANGED <<config, coordinates, current_round, total_images, browse,
                   presses, visit_presses, clicks, cap_hit, cap_stopped,
                   visit_total0, stop, cycle, raised, entries>>

\* the rest of the node once _browse_images_with_arrow_keys has returned
ClickReturn ==
    /\ pc = "click_return"
    /\ UNCHANGED other
    /\ ClickDone(TRUE)
    /\ UNCHANGED <<config, coordinates, current_round, total_images, browse,
                   presses, visit_presses, clicks, cap_hit, cap_stopped,
                   visit_total0, stop, cycle, raised, entries>>

\* ------------------------------------------------------------------------
\* _browse_images_with_arrow_keys
\* ------------------------------------------------------------------------
Max(a, b) == IF a >= b THEN a ELSE b

\* history: the count stands at or above a configured cap
TotalAtCap(total) ==
    max_images # None /\ max_images # 0 /\ total >= max_images

\* a cap check that lets one image too many through
CapReachedLate(total) == CapSet /\ total > max_images

\* a cap check that never stops anything
CapReachedNever(total) == CapSet /\ total < 0

\* "if max_images and total_images >= max_images"
CapReached(total) == CapSet /\ total >= max_images

\* a loop that runs once more
LoopDoneLate(k) == k > arrow_count

\* "for i in range(arrow_count)": the loop is over at i = arrow_count
LoopDone(k) == k >= arrow_count

\* file numbers that leave image_002 out
FrameNumberSkip(k) == k + 3

\* f"image_{str(i + 2).zfill(3)}.png": the number of the frame of iteration k
FrameNumber(k) == k + 2

\* Up to the first screenshot being saved as image_001.
BrowseStart ==
    /\ pc = "browse_start"
    /\ UNCHANGED other
    /\ visit_total0' = total_images
    /\ visit_presses' = 0
    /\ i' = 0
    /\ current_screenshot' = NoShot
    /\ IF CapReached(total_images)
       THEN /\ stop' = "cap_skip"
            /\ cap_stopped' = TRUE
            /\ saved_count' = 0
            /\ files' = NoFiles
            /\ prev_screenshot' = NoShot
            /\ pc' = "click_return"
            /\ UNCHANGED <<total_images, cap_hit>>
       ELSE \/ \* page.screenshot raises: "return 0"
               /\ stop' = "error"
               /\ cap_stopped' = cap_stopped
               /\ saved_count' = 0
               /\ files' = NoFiles
               /\ prev_screenshot' = NoShot
               /\ pc' = "click_return"
               /\ UNCHANGED <<total_images, cap_hit>>
            \/ \E shot \in palette :
                  /\ prev_screenshot' = shot
                  /\ files' = WriteFile(NoFiles, 1, shot)
                  /\ saved_count' = 1
                  /\ total_images' = total_images + 1
                  /\ cap_hit' = (cap_hit \/ TotalAtCap(total_images + 1))
                  /\ stop' = "none"
                  /\ cap_stopped' = cap_stopped
                  /\ pc' = "advance"
    /\ UNCHANGED <<config, graph, presses, clicks, order, cycle, raised,
                   entries>>

\* Head of one loop iteration: the cap check and the ArrowRight press.
Advance ==
    /\ pc = "advance"
    /\ UNCHANGED other
    /\ IF LoopDone(i)
       THEN /\ stop' = "exhausted"
            /\ pc' = "click_return"
            /\ UNCHANGED <<presses, visit_presses, cap_stopped>>
       ELSE IF CapReached(total_images)
       THEN /\ stop' = "cap_break"
            /\ cap_stopped' = TRUE
            /\ pc' = "click_return"
            /\ UNCHANGED <<presses, visit_presses>>
       ELSE /\ presses' = presses + 1
            /\ visit_presses' = visit_presses + 1
            /\ cap_stopped' = cap_stopped
            /\ \/ /\ stop' = "error"          \* keyboard.press raises
                  /\ pc' = "click_return"
               \/ /\ stop' = stop
                  /\ pc' = "capture"
    /\ UNCHANGED <<config, graph, total_images, browse, clicks, cap_hit,
                   visit_total0, order, cycle, raised, entries>>

\* The screenshot after the press, saved as image_(i+2) before any check.
Capture ==
    /\ pc = "capture"
    /\ UNCHANGED other
    /\ \/ /\ stop' = "error"                  \* page.screenshot raises
          /\ pc' = "click_return"
          /\ UNCHANGED <<total_images, browse, cap_hit>>
       \/ \E shot \in palette :
             /\ current_screenshot' = shot
             /\ files' = WriteFile(files, FrameNumber(i), shot)
             /\ saved_count' = saved_count + 1
             /\ total_images' = total_images + 1
             /\ cap_hit' = (cap_hit \/ TotalAtCap(total_images + 1))
             /\ stop' = stop
             /\ pc' = "compare"
             /\ UNCHANGED <<i, prev_screenshot>>
    /\ UNCHANGED <<config, graph, presses, visit_presses, clicks,
                   cap_stopped, visit_total0, order, cycle, raised, entries>>

\* The duplicate check: roll the frame back and stop, or make it the baseline.
Compare ==
    /\ pc = "compare"
    /\ UNCHANGED other
    /\ IF IsDuplicate(prev_screenshot, current_screenshot)
       THEN /\ files' = Unlink(files, FrameNumber(i))
            /\ saved_count' = saved_count - 1
            /\ total_images' = Max(0, total_images - 1)
            /\ stop' = "duplicate"
            /\ pc' = "click_return"
            /\ UNCHANGED <<i, prev_screenshot, current_screenshot>>
       ELSE /\ prev_screenshot' = current_screenshot
            /\ i' = i + 1
            /\ pc' = "advance"
            /\ UNCHANGED <<files, saved_count, total_images, stop,
                           current_screenshot>>
    /\ UNCHANGED <<config, graph, presses, visit_presses, clicks, cap_hit,
                   cap_stopped, visit_total0, order, cycle, raised, entries>>

\* ------------------------------------------------------------------------
\* scroll_and_wait_node
\* ------------------------------------------------------------------------
\* a scroll that leaves the round counter where it is
NextRoundStuck(round) == round

\* "current_round": state.get("current_round", 1) + 1
NextRound(round) == round + 1

scroll_and_wait_node ==
    /\ pc = "scroll"
    /\ UNCHANGED other
    /\ \/ /\ step' = "scrolled_for_next_round"
          /\ coordinates' = <<>>
          /\ current_index' = 0
       \/ /\ step' = "scroll_failed"
          /\ UNCHANGED <<coordinates, current_index>>
    /\ current_round' = NextRound(current_round)
    /\ pc' = "collect"
    /\ UNCHANGED <<config, clicked, failures, last_click_entered,
                   total_images, browse, history>>

\* ------------------------------------------------------------------------
\* Specifications
\* ------------------------------------------------------------------------
Next ==
    \/ collect_coordinates_node
    \/ ClickStart
    \/ BrowseStart
    \/ Advance
    \/ Capture
    \/ Compare
    \/ ClickReturn
    \/ scroll_and_wait_node

Spec == Init /\ [][Next]_vars

\* one detail-view visit: one candidate, one round
NextVisit ==
    \/ collect_coordinates_node
    \/ ClickStart
    \/ BrowseStart
    \/ Advance
    \/ Capture
    \/ Compare
    \/ ClickReturn

SpecVisit == InitVisit /\ [][NextVisit]_vars

\* the mission's task is never suspended for ever: every await of a node
\* returns or raises (the page calls carry timeouts)
InitRounds ==
    /\ max_notes \in 1..MaxNotes
    /\ total_rounds \in 1..MaxRounds
    /\ arrow_count \in 0..FeedArrow
    /\ max_images = None
    /\ palette = 1..MissionFrames
    /\ InitState
    /\ VerifierIdle
    /\ AgentIdle
    /\ RestIdle

SpecRounds == InitRounds /\ [][Next]_vars /\ WF_vars(Next)

\* one round over a feed of up to FeedNotes candidates
SpecFeed == InitFeed /\ [][NextVisit]_vars

\* ------------------------------------------------------------------------
\* One call of ClickVerifier.validate
\* ------------------------------------------------------------------------
\* VIEWPORT of src/config/settings.py, which the browser context is given
viewport_size == [width |-> 1280, height |-> 800]

\* a card, the same card one pixel larger, a link nested in the card (the
\* selectors match both), the card of the next column, and a card that is
\* partly left of the viewport
CardA == Rect(200, 350, 200, 250)
CardB == Rect(200, 350, 201, 251)
CardLink == Rect(210, 360, 50, 40)
CardC == Rect(500, 350, 200, 250)
CardOff == Rect(-101, 350, 201, 250)
Cards == {CardA, CardB, CardLink, CardC, CardOff}

PointX == {-5, 50, 220, 300, 450, 1300}
PointY == {-5, 370, 450, 475, 900}
Boxes == {NoBox, Box(400, 400, 100, 100)}

RectLists == UNION {[1..n -> Cards] : n \in 0..MaxCards}

\* elementFromPoint can only match a note selector when the page has a card
Pages ==
    {[viewport_size |-> viewport_size, is_note |-> hit, note_rects |-> rects] :
        hit \in BOOLEAN, rects \in RectLists} \
    {[viewport_size |-> viewport_size, is_note |-> TRUE, note_rects |-> <<>>]}

InitVerify ==
    /\ max_notes = 1
    /\ total_rounds = 1
    /\ arrow_count = 0
    /\ max_images = None
    /\ palette = 1..MissionFrames
    /\ InitState
    /\ v_page \in Pages
    /\ v_x \in PointX
    /\ v_y \in PointY
    /\ v_bbox \in Boxes
    /\ verification = NoVerdict
    /\ vpc = "call"
    /\ AgentIdle
    /\ RestIdle

ValidateCall ==
    /\ vpc = "call"
    /\ verification' = validate(v_page, v_x, v_y, v_bbox)
    /\ vpc' = "returned"
    /\ UNCHANGED <<config, graph, total_images, pc, browse, history,
                   v_page, v_x, v_y, v_bbox, agent, rest>>

NextVerify == ValidateCall

SpecVerify == InitVerify /\ [][NextVerify]_vars

\* ------------------------------------------------------------------------
\* The nodes of the AgentState workflow
\* ------------------------------------------------------------------------
AgentPages ==
    {page \in Pages : page.note_rects \in {<<>>, <<CardA, CardC>>}}

InitAgent ==
    /\ max_notes = 1
    /\ total_rounds = 1
    /\ arrow_count = 0
    /\ max_images = None
    /\ palette = 1..MissionFrames
    /\ InitState
    /\ VerifierIdle
    /\ max_notes_to_process \in 1..MaxProcess
    /\ note_links = <<>>
    /\ current_note_index = 0
    /\ processed_notes = <<>>
    /\ failed_notes = <<>>
    /\ agent_step = "not_started"
    /\ last_click_entered_detail = "True"
    /\ apc = "collect_note_links"
    /\ detected = 0
    /\ mouse_clicks = 0
    /\ scrolls = 0
    /\ entered_view = FALSE
    /\ RestIdle

click_graph == <<config, graph, total_images, pc, browse, history>>

\* The locator answers with a list (possibly longer than asked for), with an
\* empty list or None, or raises: the last three end in the except branch.
collect_note_links_node ==
    /\ apc = "collect_note_links"
    /\ \E n \in 0..(max_notes_to_process + 1) :
       \E detected_notes \in [1..n -> Detected] :
          LET links == IF n = 0 THEN <<>>
                       ELSE Truncate(detected_notes, max_notes_to_process)
          IN  /\ note_links' = links
              /\ agent_step' = IF n = 0 THEN "note_links_collection_failed"
                                        ELSE "note_links_collected"
              /\ detected' = n
              /\ apc' = route_after_collection(links)
    /\ current_note_index' = 0
    /\ UNCHANGED rest
    /\ UNCHANGED <<click_graph, verifier, max_notes_to_process,
                   processed_notes, failed_notes, last_click_entered_detail,
                   mouse_clicks, scrolls, entered_view>>

FailedNote(idx, position, error) ==
    [index |-> idx, click_position |-> position, error |-> error]

\* the returns of process_note_detail_node that record a failure
NoteFailed(position, error, step_name, entered_detail) ==
    /\ failed_notes' = Append(failed_notes,
                              FailedNote(current_note_index, position, error))
    /\ processed_notes' = processed_notes
    /\ current_note_index' = current_note_index + 1
    /\ agent_step' = step_name
    /\ last_click_entered_detail' = entered_detail

\* a success return that records nothing
NoteProcessedUnrecorded(position) ==
    /\ UNCHANGED <<processed_notes, failed_notes>>
    /\ current_note_index' = current_note_index + 1
    /\ agent_step' = "note_processed"
    /\ last_click_entered_detail' = "True"

\* the return of process_note_detail_node after the note was saved
NoteProcessed(position) ==
    /\ processed_notes' = Append(processed_notes,
                                 [index |-> current_note_index,
                                  click_position |-> position])
    /\ failed_notes' = failed_notes
    /\ current_note_index' = current_note_index + 1
    /\ agent_step' = "note_processed"
    /\ last_click_entered_detail' = "True"

\* The node from its entry to its return. The page is what the browser shows
\* when the node runs; every await on it may raise.
process_note_detail_node ==
    /\ apc = "process_note_detail"
    /\ apc' = "navigate_back"
    /\ UNCHANGED rest
    /\ UNCHANGED <<click_graph, max_notes_to_process, note_links, detected,
                   scrolls>>
    /\ IF current_note_index >= Len(note_links)
       THEN /\ agent_step' = "no_more_notes"
            /\ UNCHANGED <<verifier, current_note_index, processed_notes,
                           failed_notes, last_click_entered_detail,
                           mouse_clicks, entered_view>>
       ELSE LET current_note == note_links[current_note_index + 1]
                click_x == current_note.click_x
                click_y == current_note.click_y
                original == Position(2 * click_x, 2 * click_y)
            IN  \E page \in AgentPages :
                  /\ v_page' = page
                  /\ v_x' = click_x
                  /\ v_y' = click_y
                  /\ v_bbox' = current_note.bounding_box
                  /\ \/ \* the scroll into view or the verifier raised
                        /\ verification' = NoVerdict
                        /\ vpc' = "raised"
                        /\ mouse_clicks' = mouse_clicks
                        /\ entered_view' = FALSE
                        /\ NoteFailed(original, "exception",
                                      "note_processing_failed_but_continuing",
                                      "False")
                     \/ LET v == validate(page, click_x, click_y,
                                          current_note.bounding_box)
                        IN  /\ verification' = v
                            /\ vpc' = "returned"
                            /\ IF ~v.is_valid
                                  /\ ~SuggestionDiffers(v, click_x, click_y)
                               THEN /\ mouse_clicks' = mouse_clicks
                                    /\ entered_view' = FALSE
                                    /\ NoteFailed(original,
                                          "note click verification failed",
                                          "note_processing_failed_but_continuing",
                                          "False")
                               ELSE \E position \in
                                       Calibrated(page, v.click_x, v.click_y) :
                                    \/ \* _show_click_marker raised
                                       /\ mouse_clicks' = mouse_clicks
                                       /\ entered_view' = FALSE
                                       /\ NoteFailed(position, "exception",
                                             "note_processing_failed_but_continuing",
                                             "False")
                                    \/ \* the click or the wait after it raised
                                       /\ mouse_clicks' = mouse_clicks + 1
                                       /\ entered_view' \in BOOLEAN
                                       /\ NoteFailed(position, "exception",
                                             "note_processing_failed_but_continuing",
                                             "False")
                                    \/ \* no detail page after the click
                                       /\ mouse_clicks' = mouse_clicks + 1
                                       /\ entered_view' = FALSE
                                       /\ NoteFailed(position,
                                             "did not enter detail page",
                                             "note_click_invalid", "False")
                                    \/ \* saving in the detail page raised
                                       /\ mouse_clicks' = mouse_clicks + 1
                                       /\ entered_view' = TRUE
                                       /\ NoteFailed(position, "exception",
                                             "note_processing_failed_but_continuing",
                                             "True")
                                    \/ /\ mouse_clicks' = mouse_clicks + 1
                                       /\ entered_view' = TRUE
                                       /\ NoteProcessed(position)

\* a test that never skips the back action
is_False_never(last_entered_detail) == FALSE

\* "last_entered_detail is False"
is_False(last_entered_detail) == last_entered_detail = "False"

navigate_back_node ==
    /\ apc = "navigate_back"
    /\ entered_view' = FALSE
    /\ IF is_False(last_click_entered_detail)
       THEN /\ agent_step' = "skipped_back_no_detail"
            /\ last_click_entered_detail' = "None"
       ELSE /\ agent_step' \in {"navigated_back", "navigated_back_fallback",
                                "navigation_back_failed"}
            /\ last_click_entered_detail' = last_click_entered_detail
    /\ apc' = route_after_back(current_note_index, note_links,
                               processed_notes, failed_notes,
                               max_notes_to_process)
    /\ UNCHANGED rest
    /\ UNCHANGED <<click_graph, verifier, max_notes_to_process, note_links,
                   current_note_index, processed_notes, failed_notes,
                   detected, mouse_clicks, scrolls>>

scroll_for_more_notes_node ==
    /\ apc = "scroll_for_more_notes"
    /\ agent_step' \in {"scrolled_for_more", "scroll_failed"}
    /\ scrolls' = scrolls + 1
    /\ apc' = "collect_note_links"
    /\ UNCHANGED rest
    /\ UNCHANGED <<click_graph, verifier, max_notes_to_process, note_links,
                   current_note_index, processed_notes, failed_notes,
                   last_click_entered_detail, detected, mouse_clicks,
                   entered_view>>

NextAgent ==
    \/ collect_note_links_node
    \/ process_note_detail_node
    \/ navigate_back_node
    \/ scroll_for_more_notes_node

SpecAgent == InitAgent /\ [][NextAgent]_vars

\* ------------------------------------------------------------------------
\* Calls of _hamming_distance
\* ------------------------------------------------------------------------
\* the click graph, the verifier and the workflow at rest
ClickGraphIdle ==
    /\ max_notes = 1
    /\ total_rounds = 1
    /\ arrow_count = 0
    /\ max_images = None
    /\ palette = 1..MissionFrames
    /\ InitState

Hashes == 0..(2 ^ HashBits - 1)

InitHamming ==
    /\ ClickGraphIdle
    /\ VerifierIdle
    /\ AgentIdle
    /\ PollingIdle
    /\ RunnerIdle
    /\ UnitsIdle
    /\ hash_a \in Hashes
    /\ hash_b \in Hashes
    /\ distance = 0
    /\ distance_swapped = 0
    /\ hpc = "call"

HammingCall ==
    /\ hpc = "call"
    /\ distance' = hamming_distance_int(hash_a, hash_b)
    /\ distance_swapped' = hamming_distance_int(hash_b, hash_a)
    /\ hpc' = "returned"
    /\ UNCHANGED <<click_graph, verifier, agent, polling, runner, units, hash_a,
                   hash_b>>

NextHamming == HammingCall

SpecHamming == InitHamming /\ [][NextHamming]_vars

\* ------------------------------------------------------------------------
\* The polling loops: _verify_detail_page_entry and
\* manual_login_and_save_cookies_node.  The clock is the event loop's time
\* in milliseconds, counted from the call.
\* ------------------------------------------------------------------------
verify_timeout == 8000   \* "timeout: int = 8000"
probe_timeout == 500     \* "is_visible(timeout=500)"
poll_sleep == 300        \* "await asyncio.sleep(0.3)"
max_checks == 8          \* "max_checks = 8"
wait_interval == 10      \* "wait_interval = 10" (seconds)

\* "while asyncio.get_event_loop().time() < deadline"
before_deadline_always(t, d) == TRUE

before_deadline(t, d) == t < d

\* page.url as the loop reads it
Urls == {"/explore/", "/discovery/item/", "/search_result", "other"}

InitPoll ==
    /\ ClickGraphIdle
    /\ VerifierIdle
    /\ AgentIdle
    /\ HashingIdle
    /\ RunnerIdle
    /\ UnitsIdle
    /\ ppc \in {"verify_start", "login_start"}
    /\ now = 0
    /\ deadline = 0
    /\ selectors \in 0..MaxSelectors
    /\ detail_entered = "None"
    /\ via = "None"
    /\ checks = 0
    /\ is_logged_in = FALSE
    /\ login_step = "None"
    /\ cookies_saved = FALSE
    /\ iterations = 0
    /\ seen_url = "None"

PollFrame ==
    UNCHANGED <<click_graph, verifier, agent, hashing, runner, units,
                selectors>>

VerifyReturn(e, v) ==
    /\ detail_entered' = e
    /\ via' = v
    /\ ppc' = "verify_returned"

\* deadline = loop.time() + timeout / 1000
VerifyStart ==
    /\ ppc = "verify_start"
    /\ deadline' = now + verify_timeout
    /\ ppc' = "verify_test"
    /\ PollFrame
    /\ UNCHANGED seen_url
    /\ UNCHANGED <<now, detail_entered, via, checks, is_logged_in,
                   login_step, cookies_saved, iterations>>

\* the loop test; past the deadline the function answers "not entered"
VerifyTest ==
    /\ ppc = "verify_test"
    /\ IF before_deadline(now, deadline)
          THEN /\ ppc' = "verify_url"
               /\ iterations' = iterations + 1
               /\ UNCHANGED <<detail_entered, via>>
          ELSE /\ VerifyReturn("False", "detail markers not found (timeout)")
               /\ UNCHANGED iterations
    /\ PollFrame
    /\ UNCHANGED seen_url
    /\ UNCHANGED <<now, deadline, checks, is_logged_in, login_step,
                   cookies_saved>>

\* a test that lets a poll on the search page go on to the selectors
url_verdict_patient(current_url) ==
    IF current_url \in {"/explore/", "/discovery/item/"}
       THEN "entered"
       ELSE "unknown"

\* the two URL tests of one iteration: a detail path confirms the entry, the
\* search page ends the wait as a non-entry, any other URL decides nothing
url_verdict(current_url) ==
    IF current_url \in {"/explore/", "/discovery/item/"}
       THEN "entered"
       ELSE IF current_url = "/search_result" THEN "not_entered"
                                              ELSE "unknown"

VerifyUrl ==
    /\ ppc = "verify_url"
    /\ \E current_url \in Urls :
          /\ seen_url' = current_url
          /\ IF url_verdict(current_url) = "entered"
                THEN VerifyReturn("True", "url_explore_path")
                ELSE IF url_verdict(current_url) = "not_entered"
                        THEN VerifyReturn("False", "still_on_search_page")
                        ELSE /\ ppc' = "verify_selectors"
                             /\ UNCHANGED <<detail_entered, via>>
    /\ PollFrame
    /\ UNCHANGED <<now, deadline, checks, is_logged_in, login_step,
                   cookies_saved, iterations>>

\* the selector probes of one iteration: the first hit visible (0: none is,
\* or every probe raises); each probe made takes up to probe_timeout
VerifySelectors ==
    /\ ppc = "verify_selectors"
    /\ \E hit \in 0..selectors :
       \E slow \in 0..(IF hit = 0 THEN selectors ELSE hit) :
          /\ now' = now + slow * probe_timeout
          /\ IF hit > 0
                THEN VerifyReturn("True", "selector")
                ELSE /\ ppc' = "verify_sleep"
                     /\ UNCHANGED <<detail_entered, via>>
    /\ PollFrame
    /\ UNCHANGED seen_url
    /\ UNCHANGED <<deadline, checks, is_logged_in, login_step,
                   cookies_saved, iterations>>

VerifySleep ==
    /\ ppc = "verify_sleep"
    /\ now' = now + poll_sleep
    /\ ppc' = "verify_test"
    /\ PollFrame
    /\ UNCHANGED seen_url
    /\ UNCHANGED <<deadline, detail_entered, via, checks, is_logged_in,
                   login_step, cookies_saved, iterations>>

LoginStart ==
    /\ ppc = "login_start"
    /\ is_logged_in' = FALSE
    /\ checks' = 0
    /\ ppc' = "login_loop"
    /\ PollFrame
    /\ UNCHANGED seen_url
    /\ UNCHANGED <<now, deadline, detail_entered, via, login_step,
                   cookies_saved, iterations>>

\* "for i in range(max_checks)"
LoginLoop ==
    /\ ppc = "login_loop"
    /\ ppc' = IF checks < max_checks THEN "login_sleep" ELSE "login_return"
    /\ PollFrame
    /\ UNCHANGED seen_url
    /\ UNCHANGED <<now, deadline, detail_entered, via, checks, is_logged_in,
                   login_step, cookies_saved, iterations>>

LoginSleep ==
    /\ ppc = "login_sleep"
    /\ now' = now + wait_interval * 1000
    /\ ppc' = "login_detect"
    /\ PollFrame
    /\ UNCHANGED seen_url
    /\ UNCHANGED <<deadline, detail_entered, via, checks, is_logged_in,
                   login_step, cookies_saved, iterations>>

\* detect_login_status answers a bool; save_cookies swallows its errors
LoginDetect ==
    /\ ppc = "login_detect"
    /\ \E detected_login \in BOOLEAN :
          /\ is_logged_in' = detected_login
          /\ IF detected_login
                THEN /\ cookies_saved' \in BOOLEAN
                     /\ ppc' = "login_return"
                     /\ UNCHANGED checks
                ELSE /\ checks' = checks + 1
                     /\ ppc' = "login_loop"
                     /\ UNCHANGED cookies_saved
    /\ PollFrame
    /\ UNCHANGED seen_url
    /\ UNCHANGED <<now, deadline, detail_entered, via, login_step,
                   iterations>>

LoginReturn ==
    /\ ppc = "login_return"
    /\ login_step' = IF is_logged_in THEN "manual_login_completed"
                                     ELSE "manual_login_failed"
    /\ ppc' = "login_returned"
    /\ PollFrame
    /\ UNCHANGED seen_url
    /\ UNCHANGED <<now, deadline, detail_entered, via, checks, is_logged_in,
                   cookies_saved, iterations>>

NextPoll ==
    \/ VerifyStart
    \/ VerifyTest
    \/ VerifyUrl
    \/ VerifySelectors
    \/ VerifySleep
    \/ LoginStart
    \/ LoginLoop
    \/ LoginSleep
    \/ LoginDetect
    \/ LoginReturn

\* the event loop resumes the coroutine after every await
SpecPoll == InitPoll /\ [][NextPoll]_vars /\ WF_vars(NextPoll)

\* ------------------------------------------------------------------------
\* main and run_single_mission.  asyncio runs one coroutine at a time, from
\* one await to the next, in the order of its ready queue; gather creates
\* the tasks in the order of MISSIONS.
\* ------------------------------------------------------------------------
Sites == {"xiaohongshu", "pinterest", "weibo"}

\* the strategy of a supported site, ValueError for any other
get_crawler_strategy(site) ==
    IF site \in {"xiaohongshu", "pinterest"} THEN site ELSE "ValueError"

\* auth/{site}.json
_get_auth_file_path(site) == <<"auth", site>>

Missions == 1..mission_count

Queued(q) == {q[k] : k \in 1..Len(q)}

\* a semaphore that never makes a caller wait
locked_never(value, waiters) == FALSE

\* the test of Semaphore.acquire: "if not self.locked()" with the waiters
\* counted (hand-off protocol), "while self._value <= 0" before it
locked(value, waiters) ==
    IF handoff THEN value = 0 \/ waiters # <<>> ELSE value <= 0

\* the waiters a release can wake: with the hand-off protocol a woken waiter
\* stays in the deque until it runs, before it a woken waiter is popped
Pending(waiters, rdy) ==
    {k \in 1..Len(waiters) : handoff => waiters[k] \notin Queued(rdy)}

WakeUp(value, waiters, rdy, k) ==
    IF handoff
       THEN [value |-> value - 1, waiters |-> waiters,
             ready |-> Append(rdy, waiters[k])]
       ELSE [value |-> value,
             waiters |-> SubSeq(waiters, 1, k - 1)
                         \o SubSeq(waiters, k + 1, Len(waiters)),
             ready |-> Append(rdy, waiters[k])]

\* a semaphore that wakes the waiter that came last
_wake_up_next_last(value, waiters, rdy) ==
    IF Pending(waiters, rdy) = {}
       THEN [value |-> value, waiters |-> waiters, ready |-> rdy]
       ELSE WakeUp(value, waiters, rdy,
                   CHOOSE k \in Pending(waiters, rdy) :
                       \A j \in Pending(waiters, rdy) : j <= k)

\* Semaphore._wake_up_next: the first waiter not yet woken
_wake_up_next(value, waiters, rdy) ==
    IF Pending(waiters, rdy) = {}
       THEN [value |-> value, waiters |-> waiters, ready |-> rdy]
       ELSE WakeUp(value, waiters, rdy,
                   CHOOSE k \in Pending(waiters, rdy) :
                       \A j \in Pending(waiters, rdy) : k <= j)

\* a release that gives nothing back
release_lost(value, waiters, rdy) ==
    [value |-> value, waiters |-> waiters, ready |-> rdy]

\* Semaphore.release
release(value, waiters, rdy) == _wake_up_next(value + 1, waiters, rdy)

InitRunner ==
    /\ ClickGraphIdle
    /\ VerifierIdle
    /\ AgentIdle
    /\ HashingIdle
    /\ PollingIdle
    /\ UnitsIdle
    /\ mission_count \in 1..MaxMissions
    /\ max_concurrent \in 1..MaxConcurrent
    /\ handoff \in BOOLEAN
    /\ sem_value = max_concurrent
    /\ sem_waiters = <<>>
    /\ ready = [m \in 1..mission_count |-> m]
    /\ rpos = [m \in 1..mission_count |-> "created"]
    /\ rsite = [m \in 1..mission_count |-> "None"]
    /\ result = [m \in 1..mission_count |-> "None"]
    /\ closes = [m \in 1..mission_count |-> 0]
    /\ auth = [m \in 1..mission_count |-> "none"]
    /\ arrivals = <<>>
    /\ admissions = <<>>

RunnerFrame ==
    UNCHANGED <<click_graph, verifier, agent, hashing, polling, units,
                mission_count, max_concurrent, handoff>>

\* acquire has returned: BrowserManager(site=site), then
\* get_crawler_strategy(site), both before the try; a ValueError leaves the
\* "async with" (the slot is released) and ends the task
Admit(m, value, waiters, rdy) ==
    /\ admissions' = Append(admissions, m)
    /\ \E site \in Sites :
          IF get_crawler_strategy(site) = "ValueError"
             THEN LET rel == release(value, waiters, rdy)
                  IN  /\ sem_value' = rel.value
                      /\ sem_waiters' = rel.waiters
                      /\ ready' = rel.ready
                      /\ rpos' = [rpos EXCEPT ![m] = "done"]
                      /\ result' = [result EXCEPT ![m] = "ValueError"]
                      /\ UNCHANGED rsite
             ELSE /\ sem_value' = value
                  /\ sem_waiters' = waiters
                  /\ ready' = rdy
                  /\ rpos' = [rpos EXCEPT ![m] = "init_browser"]
                  /\ rsite' = [rsite EXCEPT ![m] = site]
                  /\ UNCHANGED result
    /\ UNCHANGED <<closes, auth>>

\* the first step of a task: "async with semaphore"
StartMission ==
    /\ ready # <<>>
    /\ rpos[Head(ready)] = "created"
    /\ arrivals' = Append(arrivals, Head(ready))
    /\ IF locked(sem_value, sem_waiters)
          THEN /\ sem_waiters' = Append(sem_waiters, Head(ready))
               /\ rpos' = [rpos EXCEPT ![Head(ready)] = "waiting"]
               /\ ready' = Tail(ready)
               /\ UNCHANGED <<sem_value, rsite, result, closes, auth,
                              admissions>>
          ELSE Admit(Head(ready), sem_value - 1, sem_waiters, Tail(ready))
    /\ RunnerFrame

Without(waiters, m) == SelectSeq(waiters, LAMBDA w : w # m)

\* a woken waiter runs: with the hand-off protocol it leaves the deque and
\* owns the slot; before it, it tests the value again
ResumeWaiter ==
    /\ ready # <<>>
    /\ rpos[Head(ready)] = "waiting"
    /\ IF handoff
          THEN LET rest_waiters == Without(sem_waiters, Head(ready))
                   woken == IF sem_value > 0
                               THEN _wake_up_next(sem_value, rest_waiters,
                                                  Tail(ready))
                               ELSE [value |-> sem_value,
                                     waiters |-> rest_waiters,
                                     ready |-> Tail(ready)]
               IN  Admit(Head(ready), woken.value, woken.waiters,
                         woken.ready)
          ELSE IF sem_value <= 0
                  THEN /\ sem_waiters' = Append(sem_waiters, Head(ready))
                       /\ ready' = Tail(ready)
                       /\ UNCHANGED <<sem_value, rpos, rsite, result, closes,
                                      auth, admissions>>
                  ELSE Admit(Head(ready), sem_value - 1, sem_waiters,
                             Tail(ready))
    /\ UNCHANGED arrivals
    /\ RunnerFrame

\* what an awaited node does to the mission: it returns, it raises, or the
\* user's interrupt is raised in it
Outcomes == {"ok", "Exception", "KeyboardInterrupt"}

\* the except clauses, then "finally: await browser_manager.close()"
Handled(m, outcome) ==
    /\ result' = [result EXCEPT ![m] =
                     IF outcome = "KeyboardInterrupt" THEN "interrupted"
                                                      ELSE "failed"]
    /\ rpos' = [rpos EXCEPT ![m] = "closing"]

RunnerStep ==
    /\ ready' = Tail(ready)
    /\ UNCHANGED <<sem_value, sem_waiters, rsite, closes, arrivals,
                   admissions>>
    /\ RunnerFrame

\* init_browser_node: BrowserManager.start loads the cookies of the site
ResumeInitBrowser ==
    /\ ready # <<>>
    /\ rpos[Head(ready)] = "init_browser"
    /\ \E outcome \in Outcomes :
          IF outcome = "ok"
             THEN /\ rpos' = [rpos EXCEPT ![Head(ready)] = "check_login"]
                  /\ auth' = [auth EXCEPT ![Head(ready)] = "read"]
                  /\ UNCHANGED result
             ELSE /\ Handled(Head(ready), outcome)
                  /\ UNCHANGED auth
    /\ RunnerStep

\* check_login_node
ResumeCheckLogin ==
    /\ ready # <<>>
    /\ rpos[Head(ready)] = "check_login"
    /\ \E outcome \in Outcomes :
          IF outcome = "ok"
             THEN /\ \E logged_in \in BOOLEAN :
                        rpos' = [rpos EXCEPT ![Head(ready)] =
                                    IF logged_in THEN "crawl"
                                                 ELSE "manual_login"]
                  /\ UNCHANGED result
             ELSE Handled(Head(ready), outcome)
    /\ UNCHANGED auth
    /\ RunnerStep

\* manual_login_and_save_cookies_node, then the early return when the login
\* was not detected
ResumeManualLogin ==
    /\ ready # <<>>
    /\ rpos[Head(ready)] = "manual_login"
    /\ \E outcome \in Outcomes :
          IF outcome = "ok"
             THEN \E logged_in \in BOOLEAN :
                     IF logged_in
                        THEN /\ rpos' = [rpos EXCEPT ![Head(ready)] = "crawl"]
                             /\ auth' = [auth EXCEPT ![Head(ready)] =
                                            "written"]
                             /\ UNCHANGED result
                        ELSE /\ Handled(Head(ready), "Exception")
                             /\ UNCHANGED auth
             ELSE /\ Handled(Head(ready), outcome)
                  /\ UNCHANGED auth
    /\ RunnerStep

\* search_keyword_node and run_click_graph
ResumeCrawl ==
    /\ ready # <<>>
    /\ rpos[Head(ready)] = "crawl"
    /\ \E outcome \in Outcomes :
          IF outcome = "ok"
             THEN /\ result' = [result EXCEPT ![Head(ready)] = "success"]
                  /\ rpos' = [rpos EXCEPT ![Head(ready)] = "closing"]
             ELSE Handled(Head(ready), outcome)
    /\ UNCHANGED auth
    /\ RunnerStep

\* close() has returned (it swallows its errors); the "async with" ends and
\* the coroutine's locals are gone
CloseDone ==
    /\ ready # <<>>
    /\ rpos[Head(ready)] = "closing"
    /\ closes' = [closes EXCEPT ![Head(ready)] = @ + 1]
    /\ rpos' = [rpos EXCEPT ![Head(ready)] = "done"]
    /\ rsite' = [rsite EXCEPT ![Head(ready)] = "None"]
    /\ auth' = [auth EXCEPT ![Head(ready)] = "none"]
    /\ LET rel == release(sem_value, sem_waiters, Tail(ready))
       IN  /\ sem_value' = rel.value
           /\ sem_waiters' = rel.waiters
           /\ ready' = rel.ready
    /\ UNCHANGED <<result, arrivals, admissions>>
    /\ RunnerFrame

Awaiting == {"init_browser", "check_login", "manual_login", "crawl",
             "closing"}

\* what a mission awaits completes and the loop makes the task ready
IoComplete ==
    /\ \E m \in Missions :
          /\ rpos[m] \in Awaiting
          /\ m \notin Queued(ready)
          /\ ready' = Append(ready, m)
    /\ UNCHANGED <<sem_value, sem_waiters, rpos, rsite, result, closes, auth,
                   arrivals, admissions>>
    /\ RunnerFrame

NextRunner ==
    \/ StartMission
    \/ ResumeWaiter
    \/ ResumeInitBrowser
    \/ ResumeCheckLogin
    \/ ResumeManualLogin
    \/ ResumeCrawl
    \/ CloseDone
    \/ IoComplete

\* the loop runs every ready task and every awaited operation ends
SpecRunner == InitRunner /\ [][NextRunner]_vars /\ WF_vars(NextRunner)

\* ------------------------------------------------------------------------
\* _compute_image_hash on the grid that convert("L").resize((hash_size + 1,
\* hash_size)) and getdata() give: hash_size rows of hash_size + 1 values
\* ------------------------------------------------------------------------
\* a comparison that also counts equal neighbours
brighter_or_equal(left, right) == left >= right

\* "left > right"
brighter(left, right) == left > right

\* the list differences, in the order the two loops append to it
differences(px, n) ==
    [k \in 1..(n * n) |->
        LET row == (k - 1) \div n
            col == (k - 1) % n
            row_start == row * (n + 1)
        IN  brighter(px[row_start + col + 1], px[row_start + col + 2])]

\* "hash_int = (hash_int << 1) | int(bit)" over the list
pack(bits) ==
    LET RECURSIVE f(_)
        f(k) == IF k = 0 THEN 0
                ELSE 2 * f(k - 1) + (IF bits[k] THEN 1 ELSE 0)
    IN  f(Len(bits))

\* None when the bytes do not decode
_compute_image_hash(px, n) ==
    IF px = <<>> THEN None ELSE pack(differences(px, n))

Grids(n) == [1..((n + 1) * n) -> 0..MaxGray]

InitDhash ==
    /\ ClickGraphIdle
    /\ VerifierIdle
    /\ AgentIdle
    /\ HashingIdle
    /\ PollingIdle
    /\ RunnerIdle
    /\ CalibIdle
    /\ hash_size \in 1..HashSize
    /\ pixels \in Grids(hash_size) \cup {<<>>}
    /\ hash_int = 0
    /\ dpc = "call"

DhashCall ==
    /\ dpc = "call"
    /\ hash_int' = _compute_image_hash(pixels, hash_size)
    /\ dpc' = "returned"
    /\ UNCHANGED <<click_graph, verifier, agent, hashing, polling, runner,
                   pixels, hash_size, calib>>

NextDhash == DhashCall

SpecDhash == InitDhash /\ [][NextDhash]_vars

\* ------------------------------------------------------------------------
\* Verification, DOM calibration and click of one candidate
\* (process_note_detail_node steps 1.5 to 2, _calibrate_click_with_dom)
\* ------------------------------------------------------------------------
\* excluded_words, by the meaning of the four labels
excluded_words == {"related_search", "everyone_searches",
                   "guess_your_search", "hot_search"}

\* the first 50 characters of a card's text: no text, a note's title, a
\* recommendation widget
Texts == {<<>>, <<"title">>, <<"hot_search", "title">>}

\* a test that skips no card
excluded_none(text) == FALSE

\* "text && excludedWords.some(w => text.includes(w))"
excluded(text) ==
    /\ text # <<>>
    /\ \E w \in excluded_words : \E k \in 1..Len(text) : text[k] = w

Result(rect) ==
    [present |-> TRUE, x2 |-> center_x2(rect), y2 |-> center_y2(rect)]

\* the loop of page.evaluate: the first card of minimal distance among
\* those not skipped, null when there is none
_calibrate_click_with_dom(note_rects, texts, x, y) ==
    LET nodes == {k \in 1..Len(note_rects) : ~excluded(texts[k])}
    IN  IF nodes = {} THEN NoResult
        ELSE LET best == CHOOSE k \in nodes : \A j \in nodes :
                            /\ j < k => dist2(note_rects[k], x, y)
                                           < dist2(note_rects[j], x, y)
                            /\ j > k => dist2(note_rects[k], x, y)
                                           <= dist2(note_rects[j], x, y)
             IN  Result(note_rects[best])

InitCalib ==
    /\ ClickGraphIdle
    /\ AgentIdle
    /\ HashingIdle
    /\ PollingIdle
    /\ RunnerIdle
    /\ DhashIdle
    /\ v_page \in Pages
    /\ v_x \in PointX
    /\ v_y \in PointY
    /\ v_bbox \in Boxes
    /\ verification = NoVerdict
    /\ vpc = "call"
    /\ card_texts \in [1..Len(v_page.note_rects) -> Texts]
    /\ calibrated = NoResult
    /\ click_point = NoPoint
    /\ calibrations = 0
    /\ cpc = "verify"

CalibFrame ==
    UNCHANGED <<click_graph, agent, hashing, polling, runner, dhash,
                v_page, v_x, v_y, v_bbox, card_texts>>

\* step 1.5: the verifier raises, finds nothing to click ("raise
\* Exception"), or hands over the point to go on with
CalibVerify ==
    /\ cpc = "verify"
    /\ \/ /\ verification' = NoVerdict
          /\ vpc' = "raised"
          /\ cpc' = "failed"
       \/ LET v == validate(v_page, v_x, v_y, v_bbox)
          IN  /\ verification' = v
              /\ vpc' = "returned"
              /\ cpc' = IF ~v.is_valid /\ ~SuggestionDiffers(v, v_x, v_y)
                        THEN "failed"
                        ELSE "calibrate"
    /\ UNCHANGED <<calibrated, click_point, calibrations>>
    /\ CalibFrame

\* step 1.55: page.evaluate returns, or raises and the helper returns None
CalibCall ==
    /\ cpc = "calibrate"
    /\ calibrated' \in
          {NoResult,
           _calibrate_click_with_dom(v_page.note_rects, card_texts,
                                     verification.click_x,
                                     verification.click_y)}
    /\ calibrations' = calibrations + 1
    /\ cpc' = "click"
    /\ UNCHANGED <<verification, vpc, click_point>>
    /\ CalibFrame

\* steps 1.6 and 2: the marker may raise; otherwise the mouse clicks
CalibClick ==
    /\ cpc = "click"
    /\ \/ /\ cpc' = "failed"
          /\ click_point' = click_point
       \/ /\ cpc' = "clicked"
          /\ click_point' =
                IF calibrated.present
                THEN [x2 |-> calibrated.x2, y2 |-> calibrated.y2]
                ELSE [x2 |-> 2 * verification.click_x,
                      y2 |-> 2 * verification.click_y]
    /\ UNCHANGED <<verification, vpc, calibrated, calibrations>>
    /\ CalibFrame

NextCalib ==
    \/ CalibVerify
    \/ CalibCall
    \/ CalibClick

SpecCalib == InitCalib /\ [][NextCalib]_vars

\* ------------------------------------------------------------------------
\* Properties
\* ------------------------------------------------------------------------
FileCount == Cardinality(DOMAIN files)

\* C1: with a cap configured, the running count of saved images never
\* exceeds it, in every state of the mission, the one between the save of a
\* frame and the rollback of a duplicate included.
C1_TotalWithinCap == CapSet => total_images <= max_images

\* a frame was saved at the cap and is about to be rolled back as a duplicate
C1_Witness ==
    /\ CapSet
    /\ pc = "compare"
    /\ total_images = max_images
    /\ IsDuplicate(prev_screenshot, current_screenshot)

\* C2: once total_images >= max_images has held, no ArrowRight is pressed
\* any more, neither in the running visit nor in a later visit of the mission.
C2_NoAdvanceAfterCap == [][cap_hit => presses' = presses]_vars

\* a later visit of the mission, entered after the cap was reached, returns
\* without having pressed a key
C2_Witness ==
    /\ cap_hit
    /\ pc = "click_return"
    /\ stop = "cap_skip"
    /\ visit_presses = 0
    /\ presses > 0

\* C3: once total_images has reached max_images, no candidate is clicked.
C3_NoClickAfterCap == [][TotalAtCap(total_images) => clicks' = clicks]_vars

\* C4: when the cap stops a visit, total_images is exactly the cap, and stays
\* so until the end of the mission; the visit that crosses the cap has saved
\* exactly the remainder (cap minus the total at its entry) when it breaks
\* out of the loop, and a visit entered at the cap saves nothing.
C4_CapExact ==
    CapSet =>
      /\ cap_stopped => total_images = max_images
      /\ stop = "cap_break" => saved_count = max_images - visit_total0
      /\ stop = "cap_skip" => saved_count = 0

\* cap 10, five advances per visit: the first visit has kept its 6 frames,
\* the second keeps 4 and stops in the middle of its loop with the total at 10
C4_Witness ==
    /\ max_images = 10
    /\ arrow_count = 5
    /\ pc = "click_return"
    /\ stop = "cap_break"
    /\ Len(clicked) = 1
    /\ clicked[1].entered_detail
    /\ visit_total0 = 6
    /\ saved_count = 4
    /\ FileCount = 4
    /\ i < arrow_count
    /\ total_images = 10

\* C5: a visit presses ArrowRight at most arrow_count times and saves at most
\* arrow_count + 1 frames; a visit that uses up the count has pressed
\* arrow_count times, kept arrow_count + 1 frames, and ends as a clicked
\* outcome with entered_detail, without a failure recorded for its candidate.
C5_AdvanceBound ==
    /\ visit_presses <= arrow_count
    /\ saved_count <= arrow_count + 1
    /\ FileCount <= arrow_count + 1
    /\ stop = "exhausted" =>
          /\ visit_presses = arrow_count
          /\ saved_count = arrow_count + 1
    /\ (stop = "exhausted" /\ pc = "done") =>
          /\ step = "clicked"
          /\ clicked # <<>>
          /\ clicked[Len(clicked)].index = current_index - 1
          /\ clicked[Len(clicked)].entered_detail
          /\ \A k \in 1..Len(failures) :
                failures[k].index # current_index - 1
          /\ last_click_entered

C5_Witness ==
    /\ stop = "exhausted"
    /\ pc = "done"
    /\ arrow_count >= 2
    /\ FileCount = arrow_count + 1

\* C6: what the duplicate rule of the claim says of two consecutive captures
ClaimDuplicate(prev, cur) ==
    \/ cur = prev
    \/ /\ ShotHash(prev).ok
       /\ ShotHash(cur).ok
       /\ _hamming_distance(ShotHash(prev),
                            ShotHash(cur)) <= DupThreshold

\* C6: the duplicate check stops the traversal and deletes the frame exactly
\* when the frame is byte-identical to the previous one or their hashes are
\* within Hamming distance 4; otherwise the frame becomes the baseline and
\* the traversal continues.
C6_StopsAtFirstDuplicate ==
    [][pc = "compare" =>
          IF ClaimDuplicate(prev_screenshot, current_screenshot)
          THEN /\ stop' = "duplicate"
               /\ files' = Unlink(files, FrameNumber(i))
               /\ pc' = "click_return"
          ELSE /\ prev_screenshot' = current_screenshot
               /\ files' = files
               /\ pc' = "advance"]_vars

\* C7 (as claimed): the frames kept for a visit are pairwise distinct.
C7_PairwiseDistinct ==
    pc # "compare" =>
       \A j, k \in DOMAIN files : j # k => files[j] # files[k]

\* C7 (amended): every kept frame differs from the frame kept right before
\* it; only the preceding frame is compared.
C7_ConsecutiveDistinct ==
    pc # "compare" =>
       \A k \in DOMAIN files :
          (k + 1) \in DOMAIN files => files[k] # files[k + 1]

\* the carousel came back to its first frame, which is kept a second time
C7_Witness ==
    /\ pc = "click_return"
    /\ 3 \in DOMAIN files
    /\ files[3] = files[1]
    /\ files[2] # files[1]

\* C8: the files of a visit are image_001 .. image_k without a gap, in every
\* state of the visit and however it ended.
C8_Gapless == DOMAIN files = 1..FileCount

\* a duplicate was rolled back after two frames had been kept
C8_Witness ==
    /\ stop = "duplicate"
    /\ pc = "click_return"
    /\ FileCount = 2
    /\ i = 1

\* C9: current_index is in [0, len(coordinates)] in every state.
C9_IndexInRange ==
    /\ current_index >= 0
    /\ current_index <= Len(coordinates)

\* a failed scroll leaves the index at the end of the old, non-empty list
C9_Witness ==
    /\ step = "scroll_failed"
    /\ Len(coordinates) > 0
    /\ current_index = Len(coordinates)

\* C10: since the last non-empty collect the candidates 0, 1, ... were
\* processed once each, in list order, one per click step, and the click
\* steps end only when current_index equals the length of the list.
C10_OneByOne ==
    step \in {"elements_collected", "clicked", "click_failed"} =>
       /\ order = [k \in 1..current_index |-> k - 1]
       /\ Len(clicked) + Len(failures) >= current_index
       /\ pc \in {"scroll", "done"} => current_index = Len(coordinates)

\* a round of two candidates is over: one click raised, one succeeded
C10_Witness ==
    /\ step = "clicked"
    /\ pc \in {"scroll", "done"}
    /\ order = <<0, 1>>
    /\ Len(failures) = 1
    /\ Len(clicked) = 1

\* C11: an exception raised while clicking a candidate is caught in the
\* click step: the step appends exactly one entry to failures (for that
\* candidate), adds nothing to clicked, advances current_index by one and
\* stays in the same round, going on with the next candidate when there is
\* one; failures grows in no other way.
C11_ExceptionRecorded ==
    [][/\ raised' # raised =>
            /\ failures' = Append(failures, FailureEntry(current_index))
            /\ clicked' = clicked
            /\ current_index' = current_index + 1
            /\ current_round' = current_round
            /\ coordinates' = coordinates
            /\ step' = "click_failed"
            /\ pc' = IF current_index' < Len(coordinates)
                        THEN "click"
                        ELSE IF current_round < total_rounds
                                THEN "scroll" ELSE "done"
       /\ failures' # failures => raised' = raised + 1]_vars

\* the first of two candidates raised and the second was clicked afterwards
C11_Witness ==
    /\ raised = 1
    /\ Len(coordinates) = 2
    /\ failures = <<[index |-> 0, marker_id |-> 1]>>
    /\ Len(clicked) = 1
    /\ clicked[1].index = 1
    /\ current_round = 1

\* C12: a click that neither raises nor enters a detail view appends a
\* clicked entry with entered_detail = FALSE for that candidate and starts no
\* carousel traversal: no ArrowRight is pressed, no frame is saved, and the
\* controller is back at the routing of the click step.
C12_NotEnteredNoTraversal ==
    [][(clicks' = clicks + 1 /\ raised' = raised /\ entries' = entries) =>
          /\ clicked' = Append(clicked,
                               [index |-> current_index,
                                marker_id |->
                                   coordinates[current_index + 1].marker_id,
                                entered_detail |-> FALSE])
          /\ last_click_entered' = FALSE
          /\ presses' = presses
          /\ total_images' = total_images
          /\ files' = files
          /\ saved_count' = saved_count
          /\ pc' \in {"click", "scroll", "done"}]_vars

\* five candidates, all clicked, none entered a detail view, nothing saved
C12_Witness ==
    /\ Len(coordinates) = 5
    /\ Len(clicked) = 5
    /\ \A k \in 1..5 : clicked[k].entered_detail = FALSE
    /\ failures = <<>>
    /\ entries = 0
    /\ presses = 0
    /\ total_images = 0
    /\ files = NoFiles
    /\ pc = "done"

Returned == vpc = "returned"

OutsideViewport ==
    \/ v_x < 0 \/ v_x > v_page.viewport_size.width
    \/ v_y < 0 \/ v_y > v_page.viewport_size.height

StrictlyInside(rect, x, y) ==
    /\ rect.x < x /\ x < rect.x + rect.width
    /\ rect.y < y /\ y < rect.y + rect.height

\* the rectangles of the page that contain the point, by index
Containing ==
    {k \in 1..Len(v_page.note_rects) : contains(v_page.note_rects[k], v_x, v_y)}

\* v is d2 / 2 with its fraction dropped
IsTruncationOf(v, d2) ==
    IF d2 >= 0 THEN 2 * v <= d2 /\ d2 < 2 * v + 2
               ELSE d2 <= 2 * v /\ 2 * v - 2 < d2

\* the verdict is the centre of the card, each coordinate truncated
AtTruncatedCenter(rect) ==
    /\ IsTruncationOf(verification.click_x, center_x2(rect))
    /\ IsTruncationOf(verification.click_y, center_y2(rect))

\* the verdict is the centre of the card
AtCenter(rect) ==
    /\ 2 * verification.click_x = center_x2(rect)
    /\ 2 * verification.click_y = center_y2(rect)

C17_InsideSameCard ==
    (Returned /\ ~OutsideViewport) =>
        \A k \in 1..Len(v_page.note_rects) :
            StrictlyInside(v_page.note_rects[k], v_x, v_y) =>
                /\ verification.is_valid
                /\ contains(v_page.note_rects[k], verification.click_x,
                            verification.click_y)

\* C17: for an in-viewport point strictly inside the rectangle of some card
\* the verdict is valid and its point lies in the rectangle of a card that
\* contains the input point: it is the input point when the direct hit
\* answers, else the truncated centre of the first card in document order
\* whose rectangle contains the input point.
C17_InsideFirstCard ==
    (/\ Returned
     /\ ~OutsideViewport
     /\ \E k \in 1..Len(v_page.note_rects) :
            StrictlyInside(v_page.note_rects[k], v_x, v_y)) =>
        /\ verification.is_valid
        /\ \E k \in Containing :
              contains(v_page.note_rects[k], verification.click_x,
                       verification.click_y)
        /\ IF v_page.is_note
              THEN verification.click_x = v_x /\ verification.click_y = v_y
              ELSE \E k \in Containing :
                      /\ \A j \in Containing : k <= j
                      /\ AtTruncatedCenter(v_page.note_rects[k])

\* a point inside a link nested in a card: the verdict is the centre of the
\* card, which is outside the link
C17_Witness ==
    /\ Returned
    /\ v_x = 220
    /\ v_y = 370
    /\ ~v_page.is_note
    /\ v_page.note_rects = <<CardA, CardLink>>
    /\ verification.is_valid
    /\ verification.click_x = 300
    /\ verification.click_y = 475
    /\ ~contains(CardLink, verification.click_x, verification.click_y)

\* C18 as stated: when the direct hit misses and the point lies within a
\* card rectangle {x, y, w, h}, the verdict is valid at (x + w/2, y + h/2).
C18_SnappedToCenter ==
    (Returned /\ ~OutsideViewport /\ ~v_page.is_note) =>
        \A k \in Containing :
            verification.is_valid /\ AtCenter(v_page.note_rects[k])

\* C18: when the direct hit misses and the point lies within a card
\* rectangle, the verdict is valid at the centre (x + w/2, y + h/2) of the
\* first such rectangle in document order, each coordinate truncated to an
\* integer.
C18_SnappedToTruncatedCenter ==
    (Returned /\ ~OutsideViewport /\ ~v_page.is_note /\ Containing # {}) =>
        /\ verification.is_valid
        /\ verification.reason = "within note card bounding box"
        /\ \E k \in Containing :
              /\ \A j \in Containing : k <= j
              /\ AtTruncatedCenter(v_page.note_rects[k])

\* (300, 450) in {200, 350, 200, 250} gives (300, 475)
C18_Witness ==
    /\ Returned
    /\ v_x = 300
    /\ v_y = 450
    /\ ~v_page.is_note
    /\ v_page.note_rects = <<CardA>>
    /\ verification = Verdict(TRUE, 300, 475, "within note card bounding box")

\* neither the direct hit, nor a card rectangle, nor the hint box accepts
\* the in-viewport point, and the page has a card
FallbackCase ==
    /\ Returned
    /\ ~OutsideViewport
    /\ ~v_page.is_note
    /\ Containing = {}
    /\ ~(v_bbox.present /\ v_x >= v_bbox.x /\ v_y >= v_bbox.y
           /\ v_x <= v_bbox.x + v_bbox.width
           /\ v_y <= v_bbox.y + v_bbox.height)
    /\ Len(v_page.note_rects) >= 1

Nearest(k) ==
    \A j \in 1..Len(v_page.note_rects) :
        dist2(v_page.note_rects[k], v_x, v_y)
            <= dist2(v_page.note_rects[j], v_x, v_y)

\* C19 as stated: in the fallback case the verdict is invalid and carries
\* the centre of a card whose centre is nearest to the point.
C19_NearestCenter ==
    FallbackCase =>
        /\ ~verification.is_valid
        /\ \E k \in 1..Len(v_page.note_rects) :
              Nearest(k) /\ AtCenter(v_page.note_rects[k])

\* C19: in the fallback case the verdict is invalid and carries the centre,
\* each coordinate truncated to an integer, of the first card in document
\* order among those whose centre is nearest to the point.
C19_NearestTruncatedCenter ==
    FallbackCase =>
        /\ ~verification.is_valid
        /\ verification.reason
              = "no direct hit; suggesting nearest note card center"
        /\ \E k \in 1..Len(v_page.note_rects) :
              /\ Nearest(k)
              /\ \A j \in 1..(k - 1) : ~Nearest(j)
              /\ AtTruncatedCenter(v_page.note_rects[k])

\* a point half way between the centres of two cards: the first is suggested
C19_Witness ==
    /\ Returned
    /\ v_x = 450
    /\ v_y = 475
    /\ ~v_page.is_note
    /\ v_bbox = NoBox
    /\ v_page.note_rects = <<CardC, CardA>>
    /\ verification
         = Verdict(FALSE, 600, 475,
                   "no direct hit; suggesting nearest note card center")

\* ------------------------------------------------------------------------
\* The AgentState workflow
\* ------------------------------------------------------------------------
\* C13: a collection that found nothing (the locator answered with an empty
\* list or raised) is followed by the end of the workflow, where no click
\* and no scroll is issued any more; a collection that found candidates is
\* followed by the processing node with the index at 0. The collection
\* itself issues no click and no scroll.
C13_EmptyEndsNonEmptyClicks ==
    [][/\ apc = "collect_note_links" =>
            /\ mouse_clicks' = mouse_clicks
            /\ scrolls' = scrolls
            /\ IF detected' = 0
                  THEN note_links' = <<>> /\ apc' = "END"
                  ELSE /\ Len(note_links') > 0
                       /\ current_note_index' = 0
                       /\ apc' = "process_note_detail"
       /\ apc = "END" =>
            /\ apc' = "END"
            /\ mouse_clicks' = mouse_clicks
            /\ scrolls' = scrolls]_vars

\* the first collection found a candidate, the one after the scroll none
C13_Witness ==
    /\ apc = "END"
    /\ detected = 0
    /\ agent_step = "note_links_collection_failed"
    /\ scrolls = 1
    /\ mouse_clicks = 1
    /\ Len(processed_notes) = 1

\* C14: the workflow is about to scroll only with the index at the length
\* of the batch (every candidate of the batch was processed), a scroll is
\* issued only from there, and every scroll is followed by a collection.
C14_ScrollOnlyAfterBatch ==
    [][/\ apc' = "scroll_for_more_notes" =>
            current_note_index' = Len(note_links')
       /\ scrolls' # scrolls =>
            /\ apc = "scroll_for_more_notes"
            /\ current_note_index = Len(note_links)
            /\ Len(processed_notes) + Len(failed_notes) >= Len(note_links)
            /\ apc' = "collect_note_links"]_vars

\* a batch of one candidate was processed, the scroll was issued and the
\* workflow is collecting again
C14_Witness ==
    /\ scrolls = 1
    /\ apc = "collect_note_links"
    /\ Len(note_links) = 1
    /\ current_note_index = 1
    /\ max_notes_to_process = 2

\* C20: when the verifier returns an invalid verdict that carries the
\* candidate's own coordinates (no card on the page, or the point outside
\* the viewport), the node issues no click, appends exactly one entry to
\* failed_notes with the candidate's index, its coordinates and the reason
\* "note click verification failed", and advances the index; the workflow
\* then skips the navigation back and goes on with the next candidate of
\* the batch (while fewer than max_notes_to_process were handled).
C20_RefusedIsSkipped ==
    [][/\ (/\ apc = "process_note_detail"
           /\ vpc' = "returned"
           /\ ~verification'.is_valid
           /\ verification'.click_x = v_x'
           /\ verification'.click_y = v_y') =>
            /\ mouse_clicks' = mouse_clicks
            /\ failed_notes' =
                  Append(failed_notes,
                         [index |-> current_note_index,
                          click_position |->
                             [x2 |-> 2 * note_links[current_note_index + 1].click_x,
                              y2 |-> 2 * note_links[current_note_index + 1].click_y],
                          error |-> "note click verification failed"])
            /\ processed_notes' = processed_notes
            /\ current_note_index' = current_note_index + 1
            /\ last_click_entered_detail' = "False"
            /\ apc' = "navigate_back"
       /\ (apc = "navigate_back" /\ last_click_entered_detail = "False") =>
            /\ agent_step' = "skipped_back_no_detail"
            /\ UNCHANGED <<failed_notes, processed_notes, current_note_index,
                           mouse_clicks>>
            /\ (/\ current_note_index < Len(note_links)
                /\ Len(processed_notes) + Len(failed_notes)
                      < max_notes_to_process) =>
                    apc' = "process_note_detail"]_vars

\* two candidates: the first below the viewport, the second on a page
\* without cards; both were refused and recorded, none was clicked
C20_Witness ==
    /\ Len(note_links) = 2
    /\ current_note_index = 2
    /\ mouse_clicks = 0
    /\ processed_notes = <<>>
    /\ failed_notes =
          <<[index |-> 0, click_position |-> [x2 |-> 600, y2 |-> 1800],
             error |-> "note click verification failed"],
            [index |-> 1, click_position |-> [x2 |-> 900, y2 |-> 950],
             error |-> "note click verification failed"]>>
    /\ verification
         = Verdict(FALSE, 450, 475, "no note card found near coordinate")

\* ------------------------------------------------------------------------
\* _hamming_distance
\* ------------------------------------------------------------------------
\* bit k of n
Bit(n, k) == (n \div (2 ^ k)) % 2

\* C30: _hamming_distance is symmetric, is zero on identical hashes, and
\* equals the number of bit positions in which its arguments differ.
C30_HammingSymmetricZero ==
    hpc = "returned" =>
        /\ distance = distance_swapped
        /\ (hash_a = hash_b => distance = 0)
        /\ distance = Cardinality({k \in 0..(HashBits - 1) :
                                      Bit(hash_a, k) # Bit(hash_b, k)})

\* 0101 against 0110: two positions differ; and a hash against itself
C30_Witness ==
    /\ hpc = "returned"
    /\ hash_a = 5
    /\ hash_b = 6
    /\ distance = 2
    /\ distance_swapped = 2

\* ------------------------------------------------------------------------
\* Exceptions during the traversal
\* ------------------------------------------------------------------------
\* C28: an exception of an ArrowRight press or of a screenshot stops the
\* traversal of that detail view only: the traverser returns with
\* saved_count at the number of frames it saved and kept, no frame and no
\* count is lost, and the click node then records the candidate in clicked
\* with entered_detail = TRUE, adds nothing to failures and goes on as
\* after any other click.
C28_TraversalErrorContained ==
    [][/\ (stop' = "error" /\ pc \in {"browse_start", "advance", "capture"}) =>
            /\ pc' = "click_return"
            /\ saved_count' = Cardinality(DOMAIN files')
            /\ (pc # "browse_start" =>
                    files' = files /\ saved_count' = saved_count)
            /\ total_images' = total_images
            /\ UNCHANGED <<clicked, failures, current_index, current_round>>
       /\ (pc = "click_return" /\ stop = "error") =>
            /\ clicked' = Append(clicked,
                                 [index |-> current_index,
                                  marker_id |->
                                     coordinates[current_index + 1].marker_id,
                                  entered_detail |-> TRUE])
            /\ failures' = failures
            /\ raised' = raised
            /\ step' = "clicked"
            /\ current_index' = current_index + 1
            /\ total_images' = total_images
            /\ files' = files
            /\ pc' \in {"click", "scroll", "done"}]_vars

\* two frames were saved, the next capture raised, and the candidate is in
\* clicked as having entered the detail view
C28_Witness ==
    /\ stop = "error"
    /\ pc = "done"
    /\ saved_count = 2
    /\ Cardinality(DOMAIN files) = 2
    /\ total_images = 2
    /\ visit_presses = 2
    /\ failures = <<>>
    /\ Len(clicked) = 1
    /\ clicked[1].entered_detail

\* ------------------------------------------------------------------------
\* C29: the locator returns at most max_notes candidates per locate cycle
\* (possibly none), so the candidate list the controller works through in one
\* round never holds more than max_notes entries.
\* ------------------------------------------------------------------------
C29_AtMostMaxNotes == Len(coordinates) <= max_notes

\* ------------------------------------------------------------------------
\* C27: every polling loop terminates and fails closed.  The detail-entry
\* confirmation starts no iteration at or after its deadline, makes a bounded
\* number of iterations, answers "entered" only on a confirmation and answers
\* "not entered" when the deadline has passed; the manual-login confirmation
\* makes at most max_checks checks and answers "not logged in" when all of
\* them failed; and both eventually return.
\* ------------------------------------------------------------------------
PollReturned == ppc \in {"verify_returned", "login_returned"}

C27_FailsClosed ==
    /\ ppc = "verify_url" => now < deadline
    /\ iterations >= 1 => (iterations - 1) * poll_sleep < verify_timeout
    /\ ppc = "verify_returned" =>
          /\ detail_entered \in {"True", "False"}
          /\ detail_entered = "True" => via \in {"url_explore_path", "selector"}
          /\ via = "detail markers not found (timeout)" =>
                detail_entered = "False" /\ now >= deadline
    /\ checks <= max_checks
    /\ ppc = "login_returned" =>
          /\ login_step = IF is_logged_in THEN "manual_login_completed"
                                          ELSE "manual_login_failed"
          /\ ~is_logged_in <=> checks = max_checks

C27_PollingTerminates == [](C27_FailsClosed) /\ <>PollReturned

C27_Witness ==
    /\ ppc = "verify_returned"
    /\ via = "detail markers not found (timeout)"
    /\ detail_entered = "False"
    /\ now >= deadline
    /\ iterations > 1

\* ------------------------------------------------------------------------
\* C21: at most max_concurrent missions are inside the section guarded by the
\* semaphore at any time, whatever the number of missions and the order in
\* which their awaits complete; the semaphore's value stays within
\* 0..max_concurrent.
\* ------------------------------------------------------------------------
Inside == {m \in Missions : rpos[m] \in Awaiting}

C21_AtMostN ==
    /\ Cardinality(Inside) <= max_concurrent
    /\ sem_value \in 0..max_concurrent

C21_Witness ==
    /\ max_concurrent = 2
    /\ Cardinality(Inside) = 2
    /\ sem_waiters # <<>>
    /\ sem_value = 0

\* ------------------------------------------------------------------------
\* C22: admission is first-come-first-served: the missions leave acquire in
\* the order in which they called it, so no mission is admitted before one
\* that started to wait earlier.
\* ------------------------------------------------------------------------
C22_FirstComeFirstServed ==
    /\ Len(admissions) <= Len(arrivals)
    /\ \A k \in 1..Len(admissions) : admissions[k] = arrivals[k]

C22_Witness ==
    /\ max_concurrent = 1
    /\ mission_count = 3
    /\ rpos[1] = "done"
    /\ closes[1] = 1
    /\ admissions = <<1, 2>>
    /\ rpos[2] \in Awaiting
    /\ rpos[3] = "waiting"

\* ------------------------------------------------------------------------
\* C23: for every admitted mission browser_manager.close() has run exactly
\* once by the time its slot is released, on every exit path.
\* ------------------------------------------------------------------------
C23_ClosedOnceBeforeRelease ==
    \A m \in Missions :
        (rpos[m] = "done" /\ m \in Queued(admissions)) => closes[m] = 1

\* ------------------------------------------------------------------------
\* C24: run_single_mission never raises to the runner: a finished mission
\* has a structured result whose status is success, failed or interrupted.
\* ------------------------------------------------------------------------
C24_NeverRaises ==
    \A m \in Missions :
        rpos[m] = "done" => result[m] \in {"success", "failed", "interrupted"}

\* ------------------------------------------------------------------------
\* C25: two missions inside the guarded section at the same time share no
\* file: none has written a file that the other has read or written.
\* ------------------------------------------------------------------------
C25_NothingShared ==
    \A a \in Inside : \A b \in Inside \ {a} :
        ~ /\ _get_auth_file_path(rsite[a]) = _get_auth_file_path(rsite[b])
          /\ auth[a] = "written"
          /\ auth[b] # "none"

\* ------------------------------------------------------------------------
\* C26: every mission gives its slot back on every exit path: the slots are
\* always either free, held by a mission inside the section or handed to a
\* woken waiter, and eventually every mission is finished, nobody waits
\* and all max_concurrent slots are free.
\* ------------------------------------------------------------------------
HandedOver ==
    {m \in Missions : handoff /\ rpos[m] = "waiting" /\ m \in Queued(ready)}

SlotsAccounted ==
    sem_value + Cardinality(Inside) + Cardinality(HandedOver) = max_concurrent

AllReleased ==
    /\ \A m \in Missions : rpos[m] = "done"
    /\ sem_waiters = <<>>
    /\ sem_value = max_concurrent

C26_SlotsReturned == [](SlotsAccounted) /\ <>[](AllReleased)

C26_Witness ==
    /\ AllReleased
    /\ max_concurrent = 1
    /\ mission_count = 3
    /\ result[1] = "failed"
    /\ result[2] = "ValueError"
    /\ result[3] = "interrupted"

\* ------------------------------------------------------------------------
\* C31: the hash is a function of the (hash_size + 1) x hash_size grid: the
\* bit of (row, col) is 1 exactly when pixel (row, col) is strictly brighter
\* than pixel (row, col + 1), the hash_size * hash_size bits are packed
\* row-major with the first bit the most significant, and bytes that do not
\* decode give None; so equal grids give equal integers.
\* ------------------------------------------------------------------------
C31_DhashBits ==
    dpc = "returned" =>
       IF pixels = <<>>
          THEN hash_int = None
          ELSE /\ hash_int \in 0..(2 ^ (hash_size * hash_size) - 1)
               /\ \A row \in 0..(hash_size - 1) :
                  \A col \in 0..(hash_size - 1) :
                     (Bit(hash_int,
                          hash_size * hash_size - 1 - (row * hash_size + col))
                        = 1)
                     <=> (pixels[row * (hash_size + 1) + col + 1]
                            > pixels[row * (hash_size + 1) + col + 2])

C31_Witness ==
    /\ dpc = "returned"
    /\ hash_size = 2
    /\ pixels = <<2, 1, 1, 0, 1, 0>>
    /\ hash_int = 9

\* ------------------------------------------------------------------------
\* C32 (as claimed): the confirmation keeps polling until its deadline and
\* reports a non-entry only when the deadline has passed without a
\* confirmation.
\* ------------------------------------------------------------------------
C32_NonEntryOnlyAtDeadline ==
    (ppc = "verify_returned" /\ detail_entered = "False") => now >= deadline

\* ------------------------------------------------------------------------
\* C32 (amended): the polls of _verify_detail_page_entry begin before the
\* deadline and at least poll_sleep apart; a poll that reads a detail URL
\* returns entered, a poll that reads the search-results URL returns a
\* non-entry at once, a poll on any other URL returns entered when a detail
\* marker is visible and otherwise sleeps; the only other non-entry is the
\* one returned once the deadline has passed.
\* ------------------------------------------------------------------------
C32_PollVerdicts ==
    /\ ppc = "verify_url" =>
          now < deadline /\ now >= (iterations - 1) * poll_sleep
    /\ ppc = "verify_returned" =>
          /\ seen_url \in {"/explore/", "/discovery/item/"} =>
                detail_entered = "True" /\ via = "url_explore_path"
          /\ seen_url = "/search_result" =>
                detail_entered = "False" /\ via = "still_on_search_page"
          /\ seen_url = "other" =>
                \/ detail_entered = "True" /\ via = "selector"
                \/ /\ detail_entered = "False"
                   /\ via = "detail markers not found (timeout)"
                   /\ now >= deadline

C32_Witness ==
    /\ ppc = "verify_returned"
    /\ seen_url = "/search_result"
    /\ detail_entered = "False"
    /\ iterations = 2
    /\ now < deadline

\* ------------------------------------------------------------------------
\* C33: no element handle of one locate cycle is clicked after a later
\* scroll: whenever a click step is about to run, a collect has run since
\* the last scroll (there are as many locate cycles as rounds begun) and
\* every candidate of the list, the one to be clicked included, carries the
\* handle of that latest cycle.
\* ------------------------------------------------------------------------
C33_NoStaleHandle ==
    pc = "click" =>
       /\ cycle = current_round
       /\ \A k \in 1..Len(coordinates) : coordinates[k].cycle = cycle

C33_Witness ==
    /\ pc = "click"
    /\ current_round = 2
    /\ current_index = 0
    /\ coordinates # <<>>
    /\ coordinates[1].cycle = 2
    /\ Len(clicked) + Len(failures) >= 1

\* ------------------------------------------------------------------------
\* C34: the frame of an iteration is on disk, under the iteration's file
\* name, when the duplicate check runs; and whenever a visit returns, the
\* note directory holds exactly saved_count files and total_images has
\* grown by exactly saved_count since the visit began.
\* ------------------------------------------------------------------------
C34_FilesMatchCount ==
    /\ pc = "compare" =>
          /\ FrameNumber(i) \in DOMAIN files
          /\ files[FrameNumber(i)] = current_screenshot
          /\ Cardinality(DOMAIN files) = saved_count
    /\ pc = "click_return" =>
          /\ Cardinality(DOMAIN files) = saved_count
          /\ total_images = visit_total0 + saved_count

C34_Witness ==
    /\ pc = "click_return"
    /\ stop = "duplicate"
    /\ i = 1
    /\ saved_count = 2
    /\ DOMAIN files = {1, 2}
    /\ total_images = visit_total0 + 2

\* ------------------------------------------------------------------------
\* C35: clicked and failures are append-only over the whole mission: every
\* step keeps the entries already there, a click step that ends has added
\* exactly one entry to exactly one of the two logs, and nothing else
\* (collect, scroll, the steps inside a visit) adds any.
\* ------------------------------------------------------------------------
KeepsEntries(log, later) ==
    /\ Len(log) <= Len(later)
    /\ \A k \in 1..Len(log) : later[k] = log[k]

ClickStepEnds ==
    /\ pc \in {"click", "click_return"}
    /\ pc' \in {"click", "scroll", "done"}

C35_AppendOnlyLogs ==
    [][/\ KeepsEntries(clicked, clicked')
       /\ KeepsEntries(failures, failures')
       /\ ClickStepEnds =>
             \/ Len(clicked') = Len(clicked) + 1 /\ failures' = failures
             \/ Len(failures') = Len(failures) + 1 /\ clicked' = clicked
       /\ ~ClickStepEnds => (clicked' = clicked /\ failures' = failures)]_vars

\* two rounds: the first left one entry in each log, the second added a click
C35_Witness ==
    /\ current_round = 2
    /\ Len(failures) = 1
    /\ Len(clicked) = 2
    /\ failures[1].index = 0
    /\ clicked[1].index = 1
    /\ clicked[2].index = 0
    /\ pc \in {"click", "done"}

\* ------------------------------------------------------------------------
\* C36: a scroll step adds exactly one to current_round whether the gesture
\* succeeded or raised, and in both cases the mission goes on with the next
\* collect; no other step changes current_round.
\* ------------------------------------------------------------------------
C36_ScrollAlwaysAdvances ==
    [][/\ pc = "scroll" =>
             /\ current_round' = current_round + 1
             /\ step' \in {"scrolled_for_next_round", "scroll_failed"}
             /\ pc' = "collect"
             /\ current_round' <= total_rounds
       /\ pc # "scroll" => current_round' = current_round
       /\ (pc = "collect" /\ step = "scroll_failed") =>
             /\ pc' \in {"click", "scroll", "done"}
             /\ cycle' = current_round]_vars

\* the scroll that ended round 1 raised; the old handles are still in the
\* state and the second round's collect is about to run
C36_Witness ==
    /\ pc = "collect"
    /\ step = "scroll_failed"
    /\ current_round = 2
    /\ cycle = 1
    /\ coordinates # <<>>
    /\ current_index = Len(coordinates)

\* ------------------------------------------------------------------------
\* C37: every candidate that reaches the click has been through exactly one
\* DOM calibration after its verification, whether the verifier said valid
\* or only suggested a point; when the calibration returned a card, the
\* click lands on the centre of a card that carries no block-listed label
\* and no such card is nearer to the verified point; when it returned
\* nothing, the click lands on the verified point itself.
\* ------------------------------------------------------------------------
Unlisted ==
    {k \in 1..Len(card_texts) :
        \A n \in 1..Len(card_texts[k]) : card_texts[k][n] \notin excluded_words}

C37_CalibratedClick ==
    /\ cpc \in {"click", "clicked"} =>
          /\ vpc = "returned"
          /\ calibrations = 1
    /\ cpc \in {"verify", "calibrate"} => calibrations = 0
    /\ cpc = "clicked" =>
          IF calibrated.present
          THEN \E k \in Unlisted :
                  /\ click_point.x2 = center_x2(v_page.note_rects[k])
                  /\ click_point.y2 = center_y2(v_page.note_rects[k])
                  /\ \A j \in Unlisted :
                        dist2(v_page.note_rects[k], verification.click_x,
                              verification.click_y)
                          <= dist2(v_page.note_rects[j], verification.click_x,
                                   verification.click_y)
          ELSE /\ click_point.x2 = 2 * verification.click_x
               /\ click_point.y2 = 2 * verification.click_y

\* the verifier accepted a point on a recommendation widget and moved it to
\* the widget's centre; the calibration moved the click to the note beside it
C37_Witness ==
    /\ cpc = "clicked"
    /\ v_page.note_rects = <<CardA, CardC>>
    /\ card_texts = <<(<<"hot_search", "title">>), (<<"title">>)>>
    /\ verification.is_valid
    /\ verification.click_x = 300
    /\ verification.click_y = 475
    /\ calibrated.present
    /\ click_point = [x2 |-> center_x2(CardC), y2 |-> center_y2(CardC)]

\* ------------------------------------------------------------------------
\* C38: in the AgentState workflow the processed and the failed notes
\* together are never more than max_notes_to_process, over every sequence
\* of batches: the locator may answer with more notes than asked for, and a
\* scroll may be followed by a full new batch.
\* ------------------------------------------------------------------------
C38_TotalWithinMax ==
    /\ Len(processed_notes) + Len(failed_notes) <= max_notes_to_process
    /\ apc \in {"process_note_detail", "scroll_for_more_notes",
                "collect_note_links"} =>
          Len(processed_notes) + Len(failed_notes) < max_notes_to_process

\* the maximum was reached in the second batch, whose locator answer was
\* longer than the maximum
C38_Witness ==
    /\ apc = "END"
    /\ max_notes_to_process = MaxProcess
    /\ Len(processed_notes) + Len(failed_notes) = MaxProcess
    /\ processed_notes # <<>>
    /\ failed_notes # <<>>
    /\ scrolls = 1
    /\ detected = MaxProcess + 1
    /\ current_note_index < Len(note_links)

\* ------------------------------------------------------------------------
\* C39: the AgentState workflow terminates. Every execution of
\* process_note_detail adds exactly one entry to exactly one of
\* processed_notes and failed_notes and no other node adds any; every node
\* that runs lowers a measure that is never negative (four times the notes
\* still allowed, plus the rank of the node to run next), so a run has at
\* most 4 * max_notes_to_process + 2 steps, at most max_notes_to_process of
\* them in process_note_detail, also when every scroll is followed by a
\* non-empty batch; and the workflow only stops at END.
\* ------------------------------------------------------------------------
NotesTotal == Len(processed_notes) + Len(failed_notes)

OneNoteAdded ==
    \/ /\ processed_notes' = processed_notes
       /\ Len(failed_notes') = Len(failed_notes) + 1
       /\ SubSeq(failed_notes', 1, Len(failed_notes)) = failed_notes
    \/ /\ failed_notes' = failed_notes
       /\ Len(processed_notes') = Len(processed_notes) + 1
       /\ SubSeq(processed_notes', 1, Len(processed_notes)) = processed_notes

Rank(node) ==
    CASE node = "END" -> 0
      [] node = "process_note_detail" -> 1
      [] node = "collect_note_links" -> 2
      [] node = "scroll_for_more_notes" -> 3
      [] node = "navigate_back" -> 4

Measure == 4 * (max_notes_to_process - NotesTotal) + Rank(apc)

C39_WorkflowTerminates ==
    /\ [][/\ IF apc = "process_note_detail"
             THEN OneNoteAdded
             ELSE UNCHANGED <<processed_notes, failed_notes>>
          /\ Measure' < Measure]_vars
    /\ [](/\ Measure >= 0
          /\ Measure <= 4 * max_notes_to_process + 2
          /\ apc # "END" => ENABLED NextAgent)

\* every batch held one note: a scroll and a new batch after each but the
\* last, all notes saved
C39_Witness ==
    /\ apc = "END"
    /\ max_notes_to_process = MaxProcess
    /\ scrolls = MaxProcess - 1
    /\ Len(processed_notes) = MaxProcess
    /\ failed_notes = <<>>
    /\ Len(note_links) = 1
    /\ detected = 1

\* ------------------------------------------------------------------------
\* C40: navigate_back_node navigates (page.go_back, or page.goto when that
\* fails) only if the click of the process_note_detail step before it opened
\* a detail view; after a step whose click opened none, or that did not
\* click at all, it returns at once without touching the page.
\* ------------------------------------------------------------------------
BackSteps == {"navigated_back", "navigated_back_fallback",
              "navigation_back_failed"}

====
